---------------------------- MODULE Spec2Model ----------------------------
(***************************************************************************)
(* Tilt estimation: the Extended Kalman Filter of ekf_inclinometer.py and  *)
(* the IMU simulator of inclinometer_sim.py.                               *)
(*                                                                         *)
(* Numbers.  The program computes in float64.  The model computes on a     *)
(* fixed-point grid: the integer v stands for the real v / Scale, and      *)
(* every product and quotient is rounded to the grid (Mul, Dv), as every   *)
(* float64 operation is rounded to its own grid.  The grid is far coarser  *)
(* than float64, so the two tolerances of the gimbal-lock guard are        *)
(* scaled up together, by the same factor: eps = 1e-6 (the atol of the     *)
(* guard) is one grid step, and numpy's default rtol = 1e-5 = 10 * eps is  *)
(* ten grid steps.  Angles are radians on the same grid (pi/2 = 1.57).     *)
(*                                                                         *)
(* Indices.  The program's vectors and matrices are 0-based, TLA+          *)
(* sequences are 1-based: x[1] is roll, x[2] pitch, x[3..5] the biases,    *)
(* and P[i][j] is the program's P[i-1, j-1].                               *)
(***************************************************************************)
EXTENDS Integers, Sequences, FiniteSets, TLC

\* The fixed-point denominator: the grid that float64 is modelled on.
Scale == 100

\* np.pi / 2.0 on the grid.
HalfPi == 157

\* eps = 1e-6 of the gimbal-lock guards: one grid step.
Eps == 1

\* rtol = 1e-5 = 10 * eps, the default of np.isclose: ten grid steps.
Rtol == 10

\* ---------------------------------------------------------------------
\* Bounds of the exploration.
\* ---------------------------------------------------------------------

\* Calls (filter and simulator together) in one behaviour.
MaxCalls == 3

\* Largest |entry| of P, and of the Jacobian F, a predict or update is
\* explored from: keeps every product inside TLC's 32-bit integers.
MaxP == 5000
MaxF == 1000

\* Largest |angle| or |bias| a call is explored from.
MaxAngle == 400

\* ---------------------------------------------------------------------
\* Fixed-point arithmetic.
\* ---------------------------------------------------------------------

Abs(a) == IF a < 0 THEN -a ELSE a

\* np.sign
Sign(a) == IF a > 0 THEN 1 ELSE IF a < 0 THEN -1 ELSE 0

\* n / d rounded to the nearest integer (d # 0), ties away from zero.
Rnd(n, d) ==
    LET s == Sign(n) * Sign(d)
        an == Abs(n)
        ad == Abs(d)
    IN  s * ((2 * an + ad) \div (2 * ad))

\* a * b and a / b on the grid.
Mul(a, b) == Rnd(a * b, Scale)
Dv(a, b) == Rnd(a * Scale, b)

\* ---------------------------------------------------------------------
\* np.sin, np.cos, np.tan on the grid.
\* ---------------------------------------------------------------------

\* sin on [-pi/2, pi/2]: the Taylor polynomial to x^7 in Horner form,
\* x (1 - x^2/6 (1 - x^2/20 (1 - x^2/42))), with x^2 kept at Scale^2.
SinCore(r) ==
    LET K == Scale * Scale
        t == r * r
        u3 == K - (t \div 42)
        u2 == K - Rnd(t * u3, 20 * K)
        u1 == K - Rnd(t * u2, 6 * K)
    IN  Rnd(r * u1, K)

Sin(a) ==
    LET m == a % (4 * HalfPi)
        r == IF m > 2 * HalfPi THEN m - 4 * HalfPi ELSE m
        q == IF r > HalfPi THEN 2 * HalfPi - r
             ELSE IF r < -HalfPi THEN -2 * HalfPi - r
             ELSE r
    IN  SinCore(q)

Cos(a) == Sin(a + HalfPi)

\* tan = sin / cos; only used where Cos(a) # 0.
Tan(a) == Dv(Sin(a), Cos(a))

\* 1.0 / (cp * cp), the product cp * cp kept exact (at Scale^2): float64
\* does not underflow where the grid would.
Sec2(cp) == Rnd(Scale * Scale * Scale, cp * cp)

\* ---------------------------------------------------------------------
\* Vectors and matrices (np.eye, np.zeros, @, .T).
\* ---------------------------------------------------------------------

N5 == 1..5
N2 == 1..2

Eye5 == [i \in N5 |-> [j \in N5 |-> IF i = j THEN Scale ELSE 0]]
Zeros5 == [i \in N5 |-> 0]

Transpose(A) == [i \in 1..Len(A[1]) |-> [j \in 1..Len(A) |-> A[j][i]]]

\* The dot product of row i of A and column j of B (inner size 2, 3
\* or 5).
Dot(A, B, i, j) ==
    IF Len(B) = 2
    THEN A[i][1] * B[1][j] + A[i][2] * B[2][j]
    ELSE IF Len(B) = 3
    THEN A[i][1] * B[1][j] + A[i][2] * B[2][j] + A[i][3] * B[3][j]
    ELSE A[i][1] * B[1][j] + A[i][2] * B[2][j] + A[i][3] * B[3][j]
         + A[i][4] * B[4][j] + A[i][5] * B[5][j]

\* A @ B: each entry is the dot product, rounded to the grid once.
MatMul(A, B) ==
    [i \in 1..Len(A) |-> [j \in 1..Len(B[1]) |-> Rnd(Dot(A, B, i, j), Scale)]]

\* A @ v for a vector v.
MatVec(A, v) ==
    LET col == [k \in 1..Len(v) |-> <<v[k]>>]
    IN  [i \in 1..Len(A) |-> Rnd(Dot(A, col, i, 1), Scale)]

MatAdd(A, B) == [i \in 1..Len(A) |-> [j \in 1..Len(A[1]) |-> A[i][j] + B[i][j]]]
MatSub(A, B) == [i \in 1..Len(A) |-> [j \in 1..Len(A[1]) |-> A[i][j] - B[i][j]]]
VecAdd(u, v) == [i \in 1..Len(u) |-> u[i] + v[i]]
VecSub(u, v) == [i \in 1..Len(u) |-> u[i] - v[i]]

\* No entry of the matrix is larger than m in absolute value.
Within(A, m) == \A i \in 1..Len(A), j \in 1..Len(A[1]) : Abs(A[i][j]) <= m

\* ---------------------------------------------------------------------
\* InclinometerEKF: the pure parts of predict.
\* ---------------------------------------------------------------------

\* np.isclose(a, b, atol=atol) with numpy's default rtol:
\* |a - b| <= atol + rtol * |b|.
IsClose(a, b, atol) == Abs(a - b) <= atol + Mul(Rtol, Abs(b))

\* A predict without the guard.
ClampPitch_Identity(p) == p

\* The gimbal-lock guard: the local pitch after lines 57-59.
ClampPitch(p) ==
    IF IsClose(Abs(p), HalfPi, Eps) THEN Sign(p) * (HalfPi - Eps) ELSE p

\* Bias-corrected body rates (lines 52-54).
Rates(xv, gyro) == <<gyro[1] - xv[3], gyro[2] - xv[4], gyro[3] - xv[5]>>

\* tan and 1/cos^2 of the local pitch are finite numbers.
TrigFinite(p) == Cos(p) # 0

\* A roll rate with the x and y rates exchanged.
RollDot_SwappedAxes(w, r, p) ==
    w[2] + Mul(Mul(w[1], Sin(r)), Tan(p)) + Mul(Mul(w[3], Cos(r)), Tan(p))

\* roll_dot = wx + wy * sr * tp + wz * cr * tp
RollDot(w, r, p) ==
    w[1] + Mul(Mul(w[2], Sin(r)), Tan(p)) + Mul(Mul(w[3], Cos(r)), Tan(p))

\* pitch_dot = wy * cr - wz * sr
PitchDot(w, r) == Mul(w[2], Cos(r)) - Mul(w[3], Sin(r))

\* A predict that integrates the biases too: each bias follows the
\* bias-corrected rate of its axis.
PredictState_BiasIntegrated(xv, gyro, dt) ==
    LET w == Rates(xv, gyro)
        r == xv[1]
        p == ClampPitch(xv[2])
    IN  <<r + Mul(RollDot(w, r, p), dt),
          p + Mul(PitchDot(w, r), dt),
          xv[3] + Mul(w[1], dt), xv[4] + Mul(w[2], dt), xv[5] + Mul(w[3], dt)>>

\* The state written at line 75: Euler integration from the locals roll
\* and pitch, where pitch is the local the guard may have reassigned.
PredictState(xv, gyro, dt) ==
    LET w == Rates(xv, gyro)
        r == xv[1]
        p == ClampPitch(xv[2])
    IN  <<r + Mul(RollDot(w, r, p), dt),
          p + Mul(PitchDot(w, r), dt),
          xv[3], xv[4], xv[5]>>

\* A Jacobian that is the identity but for the d(roll_dot)/d(bx) term,
\* which it writes to F[2, 0] instead of F[0, 2].
Jacobian_BiasEntryTransposed(xv, gyro, dt) ==
    <<<<Scale, 0, 0, 0, 0>>,
      <<0, Scale, 0, 0, 0>>,
      <<Mul(-Scale, dt), 0, Scale, 0, 0>>,
      <<0, 0, 0, Scale, 0>>,
      <<0, 0, 0, 0, Scale>>>>

\* The Jacobian F of lines 78-122, from the locals of the call.
Jacobian(xv, gyro, dt) ==
    LET w == Rates(xv, gyro)
        r == xv[1]
        p == ClampPitch(xv[2])
        sr == Sin(r)
        cr == Cos(r)
        tp == Tan(p)
        sec_p2 == Sec2(Cos(p))
        droll_dot_droll == Mul(Mul(w[2], cr), tp) + Mul(Mul(w[3], -sr), tp)
        dpitch_dot_droll == Mul(-w[2], sr) - Mul(w[3], cr)
        droll_dot_dpitch == Mul(Mul(w[2], sr), sec_p2) + Mul(Mul(w[3], cr), sec_p2)
        dpitch_dot_dpitch == 0
        droll_dot_dbx == -Scale
        dpitch_dot_dbx == 0
        droll_dot_dby == Mul(-sr, tp)
        dpitch_dot_dby == -cr
        droll_dot_dbz == Mul(-cr, tp)
        dpitch_dot_dbz == sr
    IN  <<<<Scale + Mul(droll_dot_droll, dt), Mul(droll_dot_dpitch, dt),
            Mul(droll_dot_dbx, dt), Mul(droll_dot_dby, dt), Mul(droll_dot_dbz, dt)>>,
          <<Mul(dpitch_dot_droll, dt), Scale + Mul(dpitch_dot_dpitch, dt),
            Mul(dpitch_dot_dbx, dt), Mul(dpitch_dot_dby, dt), Mul(dpitch_dot_dbz, dt)>>,
          <<0, 0, Scale, 0, 0>>,
          <<0, 0, 0, Scale, 0>>,
          <<0, 0, 0, 0, Scale>>>>

\* Process noise Q of lines 125-130.
ProcessNoise(cfg, dt) ==
    LET d == <<Mul(cfg.q_roll, dt), Mul(cfg.q_pitch, dt),
               Mul(cfg.q_bias, dt), Mul(cfg.q_bias, dt), Mul(cfg.q_bias, dt)>>
    IN  [i \in N5 |-> [j \in N5 |-> IF i = j THEN d[i] ELSE 0]]

\* Line 132: F @ P @ F.T + Q, evaluated left to right.
PredictCov(Pm, F, Q) == MatAdd(MatMul(MatMul(F, Pm), Transpose(F)), Q)

\* ---------------------------------------------------------------------
\* InclinometerEKF: the pure parts of update.
\* ---------------------------------------------------------------------

\* H of lines 143-148.
H == <<<<Scale, 0, 0, 0, 0>>, <<0, Scale, 0, 0, 0>>>>

\* R = np.diag([r_roll, r_pitch])
MeasNoise(cfg) == <<<<cfg.r_roll, 0>>, <<0, cfg.r_pitch>>>>

\* An innovation with the operands exchanged: h - z_vec.
Innovation_Reversed(xv, z) == VecSub(MatVec(H, xv), z)

\* y = z_vec - H @ x
Innovation(xv, z) == VecSub(z, MatVec(H, xv))

\* S = H @ P @ H.T + R
InnovationCov(Pm, cfg) ==
    MatAdd(MatMul(MatMul(H, Pm), Transpose(H)), MeasNoise(cfg))

\* The determinant of a 2x2 matrix, exact (at Scale^2).
Det2(S) == S[1][1] * S[2][2] - S[1][2] * S[2][1]

\* np.linalg.inv raises LinAlgError("Singular matrix") on an exactly
\* singular matrix, and on no other.
Singular(S) == Det2(S) = 0

\* np.linalg.inv(S) for a non-singular 2x2 S.
Inv2(S) ==
    LET d == Det2(S)
        K2 == Scale * Scale
    IN  <<<<Rnd(S[2][2] * K2, d), Rnd(-S[1][2] * K2, d)>>,
          <<Rnd(-S[2][1] * K2, d), Rnd(S[1][1] * K2, d)>>>>

\* K = P @ H.T @ inv(S)
KalmanGain(Pm, S) == MatMul(MatMul(Pm, Transpose(H)), Inv2(S))

\* An update that computes the correction and leaves x as it was.
UpdateState_Unapplied(xv, K, y) == xv

\* x + K @ y
UpdateState(xv, K, y) == VecAdd(xv, MatVec(K, y))

\* (I - K @ H) @ P
UpdateCov(Pm, K) == MatMul(MatSub(Eye5, MatMul(K, H)), Pm)

\* ---------------------------------------------------------------------
\* The steps of predict and update on a filter t given as a record: its
\* x, P and logs, the x and P on entry to its call, and whether they are
\* finite.
\* ---------------------------------------------------------------------

\* Lines 48-75.
PredictBeginOn(t, gyro, dt) ==
    IF TrigFinite(ClampPitch(t.x[2]))
    THEN [t EXCEPT !.x = PredictState(t.x, gyro, dt),
                   !.pre = [x |-> t.x, P |-> t.P]]
    ELSE [t EXCEPT !.finite = FALSE, !.pre = [x |-> t.x, P |-> t.P]]

\* Lines 78-132.
PredictEndOn(t, cfg, c) ==
    IF t.finite
    THEN [t EXCEPT !.P = PredictCov(t.P, Jacobian(t.pre.x, c.gyro, c.dt),
                                    ProcessNoise(cfg, c.dt))]
    ELSE t

\* Lines 140-160.
UpdateBeginOn(t, cfg, z) ==
    [t EXCEPT !.innovation_log = Append(@, Innovation(t.x, z)),
              !.S_log = Append(@, InnovationCov(t.P, cfg)),
              !.pre = [x |-> t.x, P |-> t.P]]

\* Lines 162-164, reading the innovation back from the start of the log.
UpdateInvertOn_FirstLogged(t, cfg, z) ==
    LET S == InnovationCov(t.pre.P, cfg)
    IN  IF Singular(S)
        THEN t
        ELSE [t EXCEPT !.x = UpdateState(t.x, KalmanGain(t.P, S),
                                         t.innovation_log[1])]

\* Lines 162-164.
UpdateInvertOn(t, cfg, z) ==
    LET S == InnovationCov(t.pre.P, cfg)
    IN  IF Singular(S)
        THEN t
        ELSE [t EXCEPT !.x = UpdateState(t.x, KalmanGain(t.P, S),
                                         Innovation(t.pre.x, z))]

\* Lines 165-166.
UpdateEndOn(t, cfg) ==
    LET S == InnovationCov(t.pre.P, cfg)
    IN  IF Singular(S)
        THEN t
        ELSE [t EXCEPT !.P = UpdateCov(t.P, KalmanGain(t.pre.P, S))]

\* ---------------------------------------------------------------------
\* InclinometerSim: the pure parts of the sensor model.
\* ---------------------------------------------------------------------

\* np.sqrt of n >= 0 given at Scale^2, on the grid: the integer nearest
\* to the square root of n.
RECURSIVE SqrtFrom(_, _)
SqrtFrom(n, r) ==
    LET q == (r + n \div r) \div 2
    IN  IF q >= r THEN r ELSE SqrtFrom(n, q)
Sqrt(n) ==
    IF n = 0 THEN 0
    ELSE LET f == SqrtFrom(n, n)
         IN  IF n - f * f > f THEN f + 1 ELSE f

\* arctan of q / Fine for |q| <= Fine / 2, at the scale Fine: the series
\* q (1 - t (1/3 - t (1/5 - t/7))) with t = q^2.
Fine == Scale * Scale
AtanSmall(q) ==
    LET t == Rnd(q * q, Fine)
        a == Rnd(Fine, 5) - Rnd(t, 7)
        b == Rnd(Fine, 3) - Rnd(t * a, Fine)
        c == Fine - Rnd(t * b, Fine)
    IN  Rnd(q * c, Fine)

\* arctan(n / d) for 0 <= n <= d, d > 0, at the scale Fine, by the
\* half-angle identity atan(q) = 2 atan(q / (1 + sqrt(1 + q^2))).
AtanUnit(n, d) ==
    LET q == Rnd(n * Fine, d)
        h == Sqrt(Fine * Fine + q * q)
    IN  2 * AtanSmall(Rnd(q * Fine, Fine + h))

\* arctan(n / d) for n >= 0, d >= 0, not both zero, on the grid.
AtanQuadrant(n, d) ==
    IF n <= d
    THEN Rnd(AtanUnit(n, d), Scale)
    ELSE HalfPi - Rnd(AtanUnit(d, n), Scale)

\* np.arctan2(y, x) on the grid.
Arctan2(y, x) ==
    IF x = 0 /\ y = 0 THEN 0
    ELSE IF x >= 0 THEN Sign(y) * AtanQuadrant(Abs(y), x)
    ELSE IF y >= 0 THEN 2 * HalfPi - AtanQuadrant(y, -x)
    ELSE AtanQuadrant(-y, -x) - 2 * HalfPi

\* _rotation_matrix (lines 72-100): R_bw = Rx(roll) @ Ry(pitch) @ Rz(yaw).
RotationMatrix(r, p, y) ==
    LET cr == Cos(r)
        sr == Sin(r)
        cp == Cos(p)
        sp == Sin(p)
        cy == Cos(y)
        sy == Sin(y)
        Rx == <<<<Scale, 0, 0>>, <<0, cr, -sr>>, <<0, sr, cr>>>>
        Ry == <<<<cp, 0, sp>>, <<0, Scale, 0>>, <<-sp, 0, cp>>>>
        Rz == <<<<cy, -sy, 0>>, <<sy, cy, 0>>, <<0, 0, Scale>>>>
    IN  MatMul(MatMul(Rx, Ry), Rz)

\* The generator: a state in 0 .. RngMod - 1, advanced by every draw
\* (a linear congruential generator stands for the bit generator).
RngMod == 16
RngNext(s) == (5 * s + 3) % RngMod

\* The standard normal variate drawn in state s, in whole standard
\* deviations.
StdNormal(s) == (s % 5) - 2

\* rng.normal(0.0, std, size=3): three draws; the values and the state of
\* the generator after them.
Normal3(s, std) ==
    LET s1 == RngNext(s)
        s2 == RngNext(s1)
        s3 == RngNext(s2)
    IN  [state |-> s3,
         value |-> <<std[1] * StdNormal(s1), std[2] * StdNormal(s2),
                     std[3] * StdNormal(s3)>>]

\* np.arctan2(-ny, -nx).  A zero of the grid is the float +0.0, so a
\* negated zero is -0.0: arctan2(-0.0, x) is -0.0 for x > 0 and -pi for
\* x < 0 and for x = -0.0.
Arctan2OfNegated(ny, nx) ==
    IF ny = 0
    THEN IF -nx > 0 THEN 0 ELSE -2 * HalfPi
    ELSE Arctan2(-ny, -nx)

\* A roll with the opposite sign: arctan2(-ay, -az), the leading minus
\* left out.
RollFromAccel_Unnegated(a) == Arctan2OfNegated(a[2], a[3])

\* roll = -np.arctan2(-ay, -az) (line 160)
RollFromAccel(a) == -Arctan2OfNegated(a[2], a[3])

\* roll_pitch_from_accel (lines 141-161).  ay * ay + az * az is kept
\* exact (at Scale^2); denom < 1e-9 is denom = 0 on the grid.
RollPitchFromAccel(a) ==
    LET denom == Sqrt(a[2] * a[2] + a[3] * a[3])
        pitch_a == IF denom = 0 THEN 0 ELSE Arctan2(-a[1], denom)
    IN  <<RollFromAccel(a), pitch_a>>

\* ---------------------------------------------------------------------
\* State.
\* ---------------------------------------------------------------------

VARIABLES
    \* InclinometerEKF
    config,             \* self.config
    x,                  \* self.x
    P,                  \* self.P
    innovation_log,     \* self.innovation_log
    S_log,              \* self.S_log
    finite,             \* x and P hold only finite numbers (no inf, no nan)
    pc,                 \* where the call in progress on the filter stands
    call,               \* the call in progress, or the last one: its
                        \* arguments and its local pitch
    pre,                \* x and P on entry to that call
    result,             \* how the last call ended
    twin,               \* a second filter with the same config, x and P and
                        \* other log contents, given the same calls
    updates,            \* update calls started so far
    \* InclinometerSim
    roll,               \* self.roll
    pitch,              \* self.pitch
    yaw,                \* self.yaw
    linear_accel_body,  \* self.linear_accel_body
    angular_velocity_body,  \* self.angular_velocity_body
    sensor,             \* the sensor characteristics given to __init__, and
                        \* whether the caller passed a generator
    rng,                \* the state of self.rng
    reading,            \* what the last read returned
    sim_twin,           \* a second simulator, constructed with the same
                        \* arguments and given the same calls
    sim_finite,         \* roll, pitch and yaw are finite numbers
    sim_call,           \* the last call on the simulator: its argument
                        \* and its local pitch
    sim_pre,            \* <<roll, pitch, yaw>> on entry to that call
    \* motion_profiles
    profile,            \* the closure a factory returned: the factory and
                        \* the variables the closure captured
    made,               \* that closure as the factory returned it
    evals,              \* the calls made on the closure: t and the result
    \* robot_interface: RobotControlWindow, SerialInterface, the Arduino
    connected,          \* self.serial.connected
    rx_queue,           \* self.serial.rx_queue
    seq_data,           \* self.seq_data
    seq_stop,           \* self._seq_stop is set
    seq_running,        \* self._seq_running
    run_btn,            \* self.run_btn is enabled
    stop_btn,           \* self.stop_btn is enabled
    workers,            \* the _seq_worker threads started so far: position,
                        \* step index, the list it iterates, the messages
                        \* its drain holds, how its last _wait_done returned
    seq_done,           \* seq_done signals emitted and not yet delivered
    gui,                \* the GUI thread: idle, or inside _poll_serial with
                        \* the messages its drain holds
    arduino,            \* moves the Arduino has not completed, the moves
                        \* it has sent DONE for, POS lines sent
    tx,                 \* the commands written to the port, each with the
                        \* stop flag and stopped_at as they were on sending
    stopped_at,         \* where the running worker stood when the stop flag
                        \* was set
    \* quad_out_script1, output_display
    quad,               \* the last call of quadrature_pattern_from_angle by
                        \* a caller: the two angles and the two results
    gen,                \* the generator process: NUM_AXES and iteration
    pipe,               \* the lines written to stdout and not yet read
    num_axes,           \* self.num_axes
    a1_buf,             \* self.a1_buf
    b1_buf,             \* self.b1_buf
    a2_buf,             \* self.a2_buf
    b2_buf,             \* self.b2_buf
    index,              \* self.index
    angle1_label,       \* the text of self.angle1_label, in 0.001 degrees
    angle2_label,       \* the text of self.angle2_label, in 0.001 degrees
    last_line,          \* the fields of the last line the reader handled
    \* the caller
    calls,              \* calls made so far, on the filter and the simulator
    budget              \* calls the caller makes in all

ekf_vars ==
    <<config, x, P, innovation_log, S_log, finite, pc, call, pre, result, twin,
      updates>>
sim_vars ==
    <<roll, pitch, yaw, linear_accel_body, angular_velocity_body, sensor, rng,
      reading, sim_twin, sim_finite, sim_call, sim_pre>>
prof_vars == <<profile, made, evals>>
robot_vars ==
    <<connected, rx_queue, seq_data, seq_stop, seq_running, run_btn, stop_btn,
      workers, seq_done, gui, arduino, tx, stopped_at>>
quad_vars ==
    <<quad, gen, pipe, num_axes, a1_buf, b1_buf, a2_buf, b2_buf, index,
      angle1_label, angle2_label, last_line>>
vars == <<ekf_vars, sim_vars, prof_vars, quad_vars, robot_vars, quad_vars, calls, budget>>

\* ---------------------------------------------------------------------
\* Inputs.
\* ---------------------------------------------------------------------

\* EKFConfig values a caller constructs the filter with.  The dataclass
\* and __init__ check nothing, so zero and negative values are among them.
ConfigSet ==
    { [q_roll |-> 10, q_pitch |-> 10, q_bias |-> 10, r_roll |-> 1, r_pitch |-> 1],
      [q_roll |-> 10, q_pitch |-> 10, q_bias |-> 10, r_roll |-> 0, r_pitch |-> 0],
      [q_roll |-> -200, q_pitch |-> 10, q_bias |-> 10, r_roll |-> 1, r_pitch |-> 1] }

GyroSet == { <<0, 0, 0>>, <<0, 157, 0>>, <<100, 50, 50>> }
DtSet == { -10, 0, 10, 100 }
ZSet == { <<20, -10>>, <<0, 157>> }

\* Arguments of set_orientation, set_angular_velocity_body and step.
OrientationSet ==
    { <<0, 0, 0>>, <<30, 157, 0>>, <<0, 156, 10>>, <<0, -158, 0>>, <<50, 100, 0>> }
OmegaSet == { <<0, 0, 0>>, <<10, 20, 30>> }

\* Arguments of set_linear_accel_body and of roll_pitch_from_accel.
LinearAccelSet == { <<0, 0, 0>>, <<50, 0, -20>> }
AccelSet == { <<0, 0, -981>>, <<0, 981, 0>>, <<98, 196, -952>>, <<0, 0, 0>> }

\* The rng argument of InclinometerSim(...): None, or
\* np.random.default_rng(seed) for a seed of the caller.
NoGenerator == [given |-> FALSE, seed |-> 0]
Seeded(n) == [given |-> TRUE, seed |-> n]
RngArgSet == { NoGenerator, Seeded(1), Seeded(2) }

\* The states a generator seeded from the operating system's entropy
\* (np.random.default_rng() without a seed) may start in.
EntropySet == { 0, 5 }

\* Arguments of the profile factories and of the profiles.
ProfileOrientationSet == { <<0, 0, 0>>, <<20, -10, 0>> }
SinusoidalSet ==
    { [roll_amp |-> 10, roll_freq |-> 100, pitch_amp |-> 10, pitch_freq |-> 100,
       yaw_rate |-> 0],
      [roll_amp |-> 10, roll_freq |-> 50, pitch_amp |-> 5, pitch_freq |-> 100,
       yaw_rate |-> 20] }
AccelWorldSet == { <<50, 0, 0>> }
OscillatoryRatesSet == { <<0, 0, 0>>, <<10, 0, 5>> }
VibrationSet ==
    { [lin_accel_amp |-> 10, vib_freq |-> 1000, pitch_rate |-> 1],
      [lin_accel_amp |-> 10, vib_freq |-> 100, pitch_rate |-> 5] }
TimeSet == { 0, 25, 50, 100 }

\* The command sequences a JSON file loads: lists of steps, each step
\* given by its "command".
SeqDataSet == { <<"move_abs", "delay">>, <<"home", "move_rel">> }

\* The orientation argument of InclinometerSim(...).
InitOrientationSet == { <<0, 0, 0>>, <<0, 157, 0>> }
StepDtSet == { 10, 100 }

NoCall == [op |-> "none", gyro |-> <<0, 0, 0>>, dt |-> 0, z |-> <<0, 0>>, pitch |-> 0]

\* ---------------------------------------------------------------------
\* InclinometerEKF.__init__ (lines 30-37).
\* ---------------------------------------------------------------------

\* The second filter: as constructed, but for its logs, which hold one
\* record already.
TwinInit ==
    [x |-> Zeros5, P |-> Eye5,
     innovation_log |-> << <<7, -7>> >>,
     S_log |-> << <<<<Scale, 0>>, <<0, Scale>>>> >>,
     pre |-> [x |-> Zeros5, P |-> Eye5],
     finite |-> TRUE]

EKFInit ==
    /\ config \in ConfigSet
    /\ x = Zeros5
    /\ P = Eye5
    /\ innovation_log = <<>>
    /\ S_log = <<>>
    /\ finite = TRUE
    /\ pc = "idle"
    /\ call = NoCall
    /\ pre = [x |-> Zeros5, P |-> Eye5]
    /\ result = "none"
    /\ twin = TwinInit
    /\ updates = 0

\* ---------------------------------------------------------------------
\* InclinometerEKF.predict (lines 42-132), in its two writes.
\* ---------------------------------------------------------------------

\* The states a predict is explored from.
PredictInRange(gyro, dt) ==
    /\ \A i \in N5 : Abs(x[i]) <= MaxAngle
    /\ Within(P, MaxP)
    /\ TrigFinite(ClampPitch(x[2])) => Within(Jacobian(x, gyro, dt), MaxF)

\* The filter as a record.
Self ==
    [x |-> x, P |-> P, innovation_log |-> innovation_log, S_log |-> S_log,
     pre |-> pre, finite |-> finite]

\* Lines 48-75: the locals, the guard, the rates, and the write of self.x.
PredictBegin(gyro, dt) ==
    /\ pc = "idle"
    /\ calls < budget
    /\ finite
    /\ PredictInRange(gyro, dt)
    /\ IF TrigFinite(ClampPitch(x[2]))
       THEN x' = PredictState(x, gyro, dt) /\ finite' = TRUE
       ELSE x' = x /\ finite' = FALSE
    /\ call' = [op |-> "predict", gyro |-> gyro, dt |-> dt, z |-> <<0, 0>>,
                pitch |-> ClampPitch(x[2])]
    /\ pre' = [x |-> x, P |-> P]
    /\ pc' = "predict_P"
    /\ result' = "running"
    /\ calls' = calls + 1
    /\ twin' = PredictBeginOn(twin, gyro, dt)
    /\ UNCHANGED <<config, updates, P, innovation_log, S_log, sim_vars, budget, prof_vars, robot_vars, quad_vars>>

\* A predict that reinitializes the covariance when an entry of the new
\* covariance has grown past ten.
PredictEnd_ResetLargeCov ==
    /\ pc = "predict_P"
    /\ LET Pn == PredictCov(P, Jacobian(pre.x, call.gyro, call.dt),
                            ProcessNoise(config, call.dt))
       IN  P' = IF ~finite THEN P
                ELSE IF Within(Pn, 10 * Scale) THEN Pn ELSE Eye5
    /\ pc' = "idle"
    /\ result' = "ok"
    /\ twin' = PredictEndOn(twin, config, call)
    /\ UNCHANGED <<config, updates, x, innovation_log, S_log, finite, call, pre, calls, sim_vars, budget, prof_vars, robot_vars, quad_vars>>

\* Lines 78-132: F and Q from the locals, and the write of self.P.
PredictEnd ==
    /\ pc = "predict_P"
    /\ P' = IF finite
            THEN PredictCov(P, Jacobian(pre.x, call.gyro, call.dt),
                            ProcessNoise(config, call.dt))
            ELSE P
    /\ pc' = "idle"
    /\ result' = "ok"
    /\ twin' = PredictEndOn(twin, config, call)
    /\ UNCHANGED <<config, updates, x, innovation_log, S_log, finite, call, pre, calls, sim_vars, budget, prof_vars, robot_vars, quad_vars>>

\* ---------------------------------------------------------------------
\* InclinometerEKF.update (lines 134-166): the log, the inversion and the
\* write of self.x, the write of self.P.
\* ---------------------------------------------------------------------

\* The states an update is explored from.
UpdateInRange ==
    LET S == InnovationCov(P, config)
    IN  /\ \A i \in N5 : Abs(x[i]) <= MaxAngle
        /\ Within(P, MaxP)
        /\ ~Singular(S) =>
              /\ Within(Inv2(S), 4 * MaxP)
              /\ Within(KalmanGain(P, S), MaxF)

\* An update that bounds the log: it keeps the latest record only.
UpdateBegin_KeepLatest(z) ==
    /\ pc = "idle"
    /\ calls < budget
    /\ finite
    /\ UpdateInRange
    /\ innovation_log' = <<Innovation(x, z)>>
    /\ S_log' = <<InnovationCov(P, config)>>
    /\ call' = [op |-> "update", gyro |-> <<0, 0, 0>>, dt |-> 0, z |-> z, pitch |-> 0]
    /\ pre' = [x |-> x, P |-> P]
    /\ pc' = "update_inv"
    /\ result' = "running"
    /\ calls' = calls + 1
    /\ twin' = UpdateBeginOn(twin, config, z)
    /\ updates' = updates + 1
    /\ UNCHANGED <<config, x, P, finite, sim_vars, budget, prof_vars, robot_vars, quad_vars>>

\* An update that logs after the inversion: a call whose S cannot be
\* inverted ends before it has logged anything.
UpdateBegin_LogAfterInvert(z) ==
    /\ pc = "idle"
    /\ calls < budget
    /\ finite
    /\ UpdateInRange
    /\ IF Singular(InnovationCov(P, config))
       THEN UNCHANGED <<innovation_log, S_log>>
       ELSE /\ innovation_log' = Append(innovation_log, Innovation(x, z))
            /\ S_log' = Append(S_log, InnovationCov(P, config))
    /\ call' = [op |-> "update", gyro |-> <<0, 0, 0>>, dt |-> 0, z |-> z, pitch |-> 0]
    /\ pre' = [x |-> x, P |-> P]
    /\ pc' = "update_inv"
    /\ result' = "running"
    /\ calls' = calls + 1
    /\ twin' = UpdateBeginOn(twin, config, z)
    /\ updates' = updates + 1
    /\ UNCHANGED <<config, x, P, finite, sim_vars, budget, prof_vars, robot_vars, quad_vars>>

\* Lines 140-160: y and S, appended to the logs.
UpdateBegin(z) ==
    /\ pc = "idle"
    /\ calls < budget
    /\ finite
    /\ UpdateInRange
    /\ innovation_log' = Append(innovation_log, Innovation(x, z))
    /\ S_log' = Append(S_log, InnovationCov(P, config))
    /\ call' = [op |-> "update", gyro |-> <<0, 0, 0>>, dt |-> 0, z |-> z, pitch |-> 0]
    /\ pre' = [x |-> x, P |-> P]
    /\ pc' = "update_inv"
    /\ result' = "running"
    /\ calls' = calls + 1
    /\ twin' = UpdateBeginOn(twin, config, z)
    /\ updates' = updates + 1
    /\ UNCHANGED <<config, x, P, finite, sim_vars, budget, prof_vars, robot_vars, quad_vars>>

\* An update that recovers from a singular S by itself: it reinitializes
\* the filter before it reports the failure.
UpdateInvert_Reinit ==
    /\ pc = "update_inv"
    /\ LET y == Innovation(pre.x, call.z)
           S == InnovationCov(pre.P, config)
       IN  IF Singular(S)
           THEN /\ pc' = "idle"
                /\ result' = "LinAlgError"
                /\ x' = Zeros5
                /\ P' = Eye5
           ELSE /\ pc' = "update_P"
                /\ result' = "running"
                /\ x' = UpdateState(x, KalmanGain(P, S), y)
                /\ P' = P
    /\ twin' = UpdateInvertOn(twin, config, call.z)
    /\ UNCHANGED <<config, updates, innovation_log, S_log, finite, call, pre, calls, sim_vars, budget, prof_vars, robot_vars, quad_vars>>

\* Lines 162-164: np.linalg.inv(S) raises on a singular S and the call
\* ends there; otherwise K, and the write of self.x.
UpdateInvert ==
    /\ pc = "update_inv"
    /\ IF Singular(InnovationCov(pre.P, config))
       THEN pc' = "idle" /\ result' = "LinAlgError"
       ELSE pc' = "update_P" /\ result' = "running"
    /\ x' = UpdateInvertOn(Self, config, call.z).x
    /\ twin' = UpdateInvertOn(twin, config, call.z)
    /\ UNCHANGED <<config, updates, P, innovation_log, S_log, finite, call, pre, calls, sim_vars, budget, prof_vars, robot_vars, quad_vars>>

\* Lines 165-166: the write of self.P.
UpdateEnd ==
    /\ pc = "update_P"
    /\ P' = UpdateCov(P, KalmanGain(pre.P, InnovationCov(pre.P, config)))
    /\ pc' = "idle"
    /\ result' = "ok"
    /\ twin' = UpdateEndOn(twin, config)
    /\ UNCHANGED <<config, updates, x, innovation_log, S_log, finite, call, pre, calls, sim_vars, budget, prof_vars, robot_vars, quad_vars>>

EKFNext ==
    \/ \E gyro \in GyroSet, dt \in DtSet : PredictBegin(gyro, dt)
    \/ PredictEnd
    \/ \E z \in ZSet : UpdateBegin(z)
    \/ UpdateInvert
    \/ UpdateEnd

\* ---------------------------------------------------------------------
\* InclinometerSim (inclinometer_sim.py): orientation and step.
\* ---------------------------------------------------------------------

NoSimCall == [op |-> "none", dt |-> 0, pitch |-> 0, arg |-> <<0, 0, 0>>]

\* gravity = 9.81 (line 37)
Gravity == 981

\* The default sensor characteristics (lines 38-40): accel_noise_std =
\* 0.01 * 9.81, gyro_noise_std = 0.01, gyro_bias = 0.04 on each axis.
DefaultSensor ==
    [accel_noise_std |-> <<10, 10, 10>>, gyro_noise_std |-> <<1, 1, 1>>,
     gyro_bias |-> <<4, 4, 4>>]

\* np.random.default_rng(seed): the state a seed puts the generator in.
SeedState(seed) == (7 * seed + 1) % RngMod

\* A generator that ignores the argument: always seeded from entropy.
GeneratorStates_IgnoreArg(arg) == EntropySet

\* Line 66: the states self.rng may start in.  The generator the caller
\* passed, or, for None, np.random.default_rng(), seeded from entropy.
GeneratorStates(arg) ==
    IF arg.given THEN {SeedState(arg.seed)} ELSE EntropySet

\* The simulator as a record.
SimSelf ==
    [roll |-> roll, pitch |-> pitch, yaw |-> yaw,
     linear_accel_body |-> linear_accel_body,
     angular_velocity_body |-> angular_velocity_body,
     rng |-> rng, reading |-> reading]

\* __init__ (lines 34-66) of two simulators with the same arguments:
\* orientation o, sensor characteristics sens and rng argument arg, the
\* other arguments at their defaults.
SimInitWith(o, sens, arg) ==
    /\ roll = o[1]
    /\ pitch = o[2]
    /\ yaw = o[3]
    /\ linear_accel_body = <<0, 0, 0>>
    /\ angular_velocity_body = <<0, 0, 0>>
    /\ sensor = [accel_noise_std |-> sens.accel_noise_std,
                 gyro_noise_std |-> sens.gyro_noise_std,
                 gyro_bias |-> sens.gyro_bias,
                 rng_given |-> arg.given]
    /\ rng \in GeneratorStates(arg)
    /\ reading = <<0, 0, 0>>
    /\ \E s \in GeneratorStates(arg) :
          sim_twin = [roll |-> o[1], pitch |-> o[2], yaw |-> o[3],
                      linear_accel_body |-> <<0, 0, 0>>,
                      angular_velocity_body |-> <<0, 0, 0>>,
                      rng |-> s, reading |-> <<0, 0, 0>>]
    /\ sim_finite = TRUE
    /\ sim_call = NoSimCall
    /\ sim_pre = o

\* A simulator with the default sensors and a generator of the caller.
SimInitAt(o) == SimInitWith(o, DefaultSensor, Seeded(1))

SimInit == \E o \in InitOrientationSet : SimInitAt(o)

\* A simulator constructed with any rng argument.
SimAnyInit ==
    \E o \in InitOrientationSet, arg \in RngArgSet :
        SimInitWith(o, DefaultSensor, arg)

\* set_orientation (lines 102-105)
SetOrientation(o) ==
    /\ calls < budget
    /\ sim_finite
    /\ roll' = o[1]
    /\ pitch' = o[2]
    /\ yaw' = o[3]
    /\ sim_twin' = [sim_twin EXCEPT !.roll = o[1], !.pitch = o[2], !.yaw = o[3]]
    /\ sim_call' = [op |-> "set_orientation", dt |-> 0, pitch |-> 0, arg |-> o]
    /\ sim_pre' = <<roll, pitch, yaw>>
    /\ calls' = calls + 1
    /\ UNCHANGED <<linear_accel_body, angular_velocity_body, sensor, rng, reading,
                   sim_finite, ekf_vars, budget, prof_vars, robot_vars, quad_vars>>

\* set_linear_accel_body (lines 107-108)
SetLinearAccelBody(a) ==
    /\ calls < budget
    /\ sim_finite
    /\ linear_accel_body' = a
    /\ sim_twin' = [sim_twin EXCEPT !.linear_accel_body = a]
    /\ sim_call' = [op |-> "set_linear_accel_body", dt |-> 0, pitch |-> 0, arg |-> a]
    /\ sim_pre' = <<roll, pitch, yaw>>
    /\ calls' = calls + 1
    /\ UNCHANGED <<roll, pitch, yaw, angular_velocity_body, sensor, rng, reading,
                   sim_finite, ekf_vars, budget, prof_vars, robot_vars, quad_vars>>

\* set_angular_velocity_body (lines 110-111)
SetAngularVelocityBody(w) ==
    /\ calls < budget
    /\ sim_finite
    /\ angular_velocity_body' = w
    /\ sim_twin' = [sim_twin EXCEPT !.angular_velocity_body = w]
    /\ sim_call' = [op |-> "set_angular_velocity_body", dt |-> 0, pitch |-> 0,
                    arg |-> w]
    /\ sim_pre' = <<roll, pitch, yaw>>
    /\ calls' = calls + 1
    /\ UNCHANGED <<roll, pitch, yaw, linear_accel_body, sensor, rng, reading,
                   sim_finite, ekf_vars, budget, prof_vars, robot_vars, quad_vars>>

\* read_accel (lines 116-126) on the simulator m: the reading, and the
\* generator after the three draws.
ReadAccelOn(m, sens) ==
    LET R_bw == RotationMatrix(m.roll, m.pitch, m.yaw)
        gravity_body == MatVec(R_bw, <<0, 0, -Gravity>>)
        accel_true == VecAdd(m.linear_accel_body, gravity_body)
        noise == Normal3(m.rng, sens.accel_noise_std)
    IN  [m EXCEPT !.rng = noise.state, !.reading = VecAdd(accel_true, noise.value)]

\* read_gyro (lines 128-135) on the simulator m.
ReadGyroOn(m, sens) ==
    LET noise == Normal3(m.rng, sens.gyro_noise_std)
    IN  [m EXCEPT !.rng = noise.state,
                  !.reading = VecAdd(VecAdd(m.angular_velocity_body, sens.gyro_bias),
                                     noise.value)]

\* read_roll_pitch_from_accel (lines 163-167) on the simulator m.
ReadRollPitchOn(m, sens) ==
    LET r == ReadAccelOn(m, sens)
    IN  [r EXCEPT !.reading = RollPitchFromAccel(r.reading)]

ReadAccel ==
    /\ calls < budget
    /\ sim_finite
    /\ rng' = ReadAccelOn(SimSelf, sensor).rng
    /\ reading' = ReadAccelOn(SimSelf, sensor).reading
    /\ sim_twin' = ReadAccelOn(sim_twin, sensor)
    /\ sim_call' = [op |-> "read_accel", dt |-> 0, pitch |-> 0, arg |-> <<0, 0, 0>>]
    /\ sim_pre' = <<roll, pitch, yaw>>
    /\ calls' = calls + 1
    /\ UNCHANGED <<roll, pitch, yaw, linear_accel_body, angular_velocity_body,
                   sensor, sim_finite, ekf_vars, budget, prof_vars, robot_vars, quad_vars>>

ReadGyro ==
    /\ calls < budget
    /\ sim_finite
    /\ rng' = ReadGyroOn(SimSelf, sensor).rng
    /\ reading' = ReadGyroOn(SimSelf, sensor).reading
    /\ sim_twin' = ReadGyroOn(sim_twin, sensor)
    /\ sim_call' = [op |-> "read_gyro", dt |-> 0, pitch |-> 0, arg |-> <<0, 0, 0>>]
    /\ sim_pre' = <<roll, pitch, yaw>>
    /\ calls' = calls + 1
    /\ UNCHANGED <<roll, pitch, yaw, linear_accel_body, angular_velocity_body,
                   sensor, sim_finite, ekf_vars, budget, prof_vars, robot_vars, quad_vars>>

ReadRollPitchFromAccel ==
    /\ calls < budget
    /\ sim_finite
    /\ rng' = ReadRollPitchOn(SimSelf, sensor).rng
    /\ reading' = ReadRollPitchOn(SimSelf, sensor).reading
    /\ sim_twin' = ReadRollPitchOn(sim_twin, sensor)
    /\ sim_call' = [op |-> "read_roll_pitch_from_accel", dt |-> 0, pitch |-> 0,
                    arg |-> <<0, 0, 0>>]
    /\ sim_pre' = <<roll, pitch, yaw>>
    /\ calls' = calls + 1
    /\ UNCHANGED <<roll, pitch, yaw, linear_accel_body, angular_velocity_body,
                   sensor, sim_finite, ekf_vars, budget, prof_vars, robot_vars, quad_vars>>

\* The static method roll_pitch_from_accel (lines 141-161), called with
\* the measurement a.
RollPitchFromAccelCall(a) ==
    /\ calls < budget
    /\ sim_finite
    /\ reading' = RollPitchFromAccel(a)
    /\ sim_call' = [op |-> "roll_pitch_from_accel", dt |-> 0, pitch |-> 0, arg |-> a]
    /\ sim_pre' = <<roll, pitch, yaw>>
    /\ calls' = calls + 1
    /\ UNCHANGED <<roll, pitch, yaw, linear_accel_body, angular_velocity_body,
                   sensor, rng, sim_twin, sim_finite, ekf_vars, budget, prof_vars, robot_vars, quad_vars>>

\* The gimbal-lock guard of step: the local pitch after lines 184-186.
StepClampPitch(p) ==
    IF IsClose(Abs(p), HalfPi, Eps) THEN Sign(p) * (HalfPi - Eps) ELSE p

Max(a, b) == IF a >= b THEN a ELSE b

\* yaw_dot = (wy * sr + wz * cr) / max(cp, 1e-6)
YawDot(w, r, p) == Dv(Mul(w[2], Sin(r)) + Mul(w[3], Cos(r)), Max(Cos(p), Eps))

\* A step that integrates the pitch from the local, clamped pitch, as
\* predict does.
StepOrientation_FromLocalPitch(o, w, p, dt) ==
    <<o[1] + Mul(RollDot(w, o[1], p), dt),
      p + Mul(PitchDot(w, o[1]), dt),
      o[3] + Mul(YawDot(w, o[1], p), dt)>>

\* Lines 180-198: the orientation after step(dt), from the stored
\* orientation o, the angular velocity w and the local pitch p.
StepOrientation(o, w, p, dt) ==
    <<o[1] + Mul(RollDot(w, o[1], p), dt),
      o[2] + Mul(PitchDot(w, o[1]), dt),
      o[3] + Mul(YawDot(w, o[1], p), dt)>>

\* step (lines 172-198) on the simulator m, where tan and cos of its
\* local pitch are finite.
StepOn(m, dt) ==
    LET p == StepClampPitch(m.pitch)
        o == StepOrientation(<<m.roll, m.pitch, m.yaw>>, m.angular_velocity_body,
                             p, dt)
    IN  IF TrigFinite(p)
        THEN [m EXCEPT !.roll = o[1], !.pitch = o[2], !.yaw = o[3]]
        ELSE m

Step(dt) ==
    /\ calls < budget
    /\ sim_finite
    /\ Abs(roll) <= MaxAngle /\ Abs(pitch) <= MaxAngle /\ Abs(yaw) <= MaxAngle
    /\ LET p == StepClampPitch(pitch)
       IN  /\ IF TrigFinite(p)
              THEN LET o == StepOrientation(<<roll, pitch, yaw>>,
                                            angular_velocity_body, p, dt)
                   IN  roll' = o[1] /\ pitch' = o[2] /\ yaw' = o[3]
                       /\ sim_finite' = TRUE
              ELSE UNCHANGED <<roll, pitch, yaw>> /\ sim_finite' = FALSE
           /\ sim_call' = [op |-> "step", dt |-> dt, pitch |-> p, arg |-> <<0, 0, 0>>]
    /\ sim_twin' = StepOn(sim_twin, dt)
    /\ sim_pre' = <<roll, pitch, yaw>>
    /\ calls' = calls + 1
    /\ UNCHANGED <<linear_accel_body, angular_velocity_body, sensor, rng, reading,
                   ekf_vars, budget, prof_vars, robot_vars, quad_vars>>

SimNext ==
    \/ \E o \in OrientationSet : SetOrientation(o)
    \/ \E a \in LinearAccelSet : SetLinearAccelBody(a)
    \/ \E w \in OmegaSet : SetAngularVelocityBody(w)
    \/ \E dt \in StepDtSet : Step(dt)
    \/ ReadAccel
    \/ ReadGyro
    \/ ReadRollPitchFromAccel
    \/ \E a \in AccelSet : RollPitchFromAccelCall(a)

\* ---------------------------------------------------------------------
\* motion_profiles.py: the six factories and the closures they return.
\* A profile returns <<orientation, linear acceleration, angular
\* velocity>>.
\* ---------------------------------------------------------------------

\* np.pi and 2.0 * np.pi
Pi == 2 * HalfPi
TwoPi == Mul(2 * Scale, Pi)

Zeros3 == <<0, 0, 0>>

NoProfile == [kind |-> "none"]
NoProfiles == profile = NoProfile /\ made = NoProfile /\ evals = <<>>

\* static_orientation's profile (lines 28-29).
StaticProfile(p, t) == <<p.orientation, Zeros3, Zeros3>>

\* sinusoidal_orientation's profile (lines 52-69).
SinusoidalProfile(p, t) ==
    LET w_r == Mul(TwoPi, p.roll_freq)
        w_p == Mul(TwoPi, p.pitch_freq)
        r == Mul(p.roll_amp, Sin(Mul(w_r, t)))
        pt == Mul(p.pitch_amp, Sin(Mul(w_p, t)))
        yw == Mul(p.yaw_rate, t)
        roll_dot == Mul(Mul(p.roll_amp, w_r), Cos(Mul(w_r, t)))
        pitch_dot == Mul(Mul(p.pitch_amp, w_p), Cos(Mul(w_p, t)))
        yaw_dot == p.yaw_rate
    IN  << <<r, pt, yw>>, Zeros3, <<roll_dot, pitch_dot, yaw_dot>> >>

\* pure_linear_accel_world's profile (lines 90-91).
LinearAccelProfile(p, t) == <<p.orientation, p.accel_world, Zeros3>>

\* integrated_angle (lines 111-115).
IntegratedAngle(b, o, w, t) ==
    IF w = 0 \/ o = 0
    THEN Mul(b, t)
    ELSE Mul(b, t) + Mul(Dv(o, w), Scale - Cos(Mul(w, t)))

\* pure_angular_motion's profile (lines 117-126).
AngularProfile(p, t) ==
    LET w == Mul(TwoPi, p.osc_freq)
        b == p.base_rates
        o == p.oscillatory_rates
        rate(i) == b[i] + Mul(o[i], Sin(Mul(w, t)))
        angle(i) == IntegratedAngle(b[i], o[i], w, t)
    IN  << <<angle(1), angle(2), angle(3)>>, Zeros3, <<rate(1), rate(2), rate(3)>> >>

\* mixed_linear_angular_demo's profile (lines 139-153).
MixedProfile(p, t) ==
    LET yaw_rate == 20
        arg == Mul(Mul(TwoPi, 50), t)
        yw == Mul(yaw_rate, t)
        r == Mul(5, Sin(arg))
        wx == Mul(Mul(Mul(Mul(5, 2 * Scale), Pi), 50), Cos(arg))
        ax == Mul(50, Sin(arg))
    IN  << <<r, 0, yw>>, <<ax, 0, 0>>, <<wx, 0, yaw_rate>> >>

\* high_freq_vibration_profile's profile (lines 171-184).
VibrationProfile(p, t) ==
    LET arg == Mul(Mul(TwoPi, 10), t)
        pt == Mul(p.pitch_rate, Sin(arg))
        wy == Mul(Mul(Mul(Mul(p.pitch_rate, 2 * Scale), Pi), 10), Cos(arg))
        ax == Mul(p.lin_accel_amp, Sin(Mul(Mul(TwoPi, p.vib_freq), t)))
    IN  << <<0, pt, 0>>, <<ax, 0, 0>>, <<0, wy, 0>> >>

\* profile(t) on the closure p.
ProfileAt(p, t) ==
    CASE p.kind = "static" -> StaticProfile(p, t)
      [] p.kind = "sinusoidal" -> SinusoidalProfile(p, t)
      [] p.kind = "linear" -> LinearAccelProfile(p, t)
      [] p.kind = "angular" -> AngularProfile(p, t)
      [] p.kind = "mixed" -> MixedProfile(p, t)
      [] p.kind = "vibration" -> VibrationProfile(p, t)

\* A profile that advances the yaw it has captured on every call.
ProfileCall_Advancing(p, t) ==
    [profile |-> IF p.kind \in {"static", "linear"}
                 THEN [p EXCEPT !.orientation[3] = @ + 1]
                 ELSE IF p.kind = "sinusoidal"
                 THEN [p EXCEPT !.yaw_rate = @ + 1]
                 ELSE p,
     out |-> ProfileAt(p, t)]

\* One call profile(t): the closure afterwards and the value returned.
\* No profile has a nonlocal or global statement, and none assigns to a
\* captured variable.
ProfileCall(p, t) == [profile |-> p, out |-> ProfileAt(p, t)]

\* A factory returns the closure p.
Returned(p) ==
    /\ profile.kind = "none"
    /\ profile' = p
    /\ made' = p
    /\ UNCHANGED <<evals, ekf_vars, sim_vars, robot_vars, quad_vars, calls, budget>>

StaticOrientation(orientation) ==
    Returned([kind |-> "static", orientation |-> orientation])

SinusoidalOrientation(a) ==
    Returned([kind |-> "sinusoidal", roll_amp |-> a.roll_amp, roll_freq |-> a.roll_freq,
              pitch_amp |-> a.pitch_amp, pitch_freq |-> a.pitch_freq,
              yaw_rate |-> a.yaw_rate])

PureLinearAccelWorld(accel_world, orientation) ==
    Returned([kind |-> "linear", accel_world |-> accel_world,
              orientation |-> orientation])

PureAngularMotion(base_rates, oscillatory_rates, osc_freq) ==
    Returned([kind |-> "angular", base_rates |-> base_rates,
              oscillatory_rates |-> oscillatory_rates, osc_freq |-> osc_freq])

MixedLinearAngularDemo == Returned([kind |-> "mixed"])

HighFreqVibrationProfile(a) ==
    Returned([kind |-> "vibration", lin_accel_amp |-> a.lin_accel_amp,
              vib_freq |-> a.vib_freq, pitch_rate |-> a.pitch_rate])

\* profile(t)
Evaluate(t) ==
    /\ calls < budget
    /\ profile.kind # "none"
    /\ profile' = ProfileCall(profile, t).profile
    /\ evals' = Append(evals, [t |-> t, out |-> ProfileCall(profile, t).out])
    /\ calls' = calls + 1
    /\ UNCHANGED <<made, ekf_vars, sim_vars, robot_vars, quad_vars, budget>>

ProfileNext ==
    \/ \E o \in ProfileOrientationSet : StaticOrientation(o)
    \/ \E a \in SinusoidalSet : SinusoidalOrientation(a)
    \/ \E aw \in AccelWorldSet, o \in ProfileOrientationSet : PureLinearAccelWorld(aw, o)
    \/ \E osc \in OscillatoryRatesSet : PureAngularMotion(<<0, 0, 50>>, osc, Scale)
    \/ MixedLinearAngularDemo
    \/ \E a \in VibrationSet : HighFreqVibrationProfile(a)
    \/ \E t \in TimeSet : Evaluate(t)

\* ---------------------------------------------------------------------
\* robot_interface.py: the sequence runner of RobotControlWindow, the
\* receive queue of SerialInterface, and the Arduino at the other end of
\* the port.  The GUI thread runs one handler at a time; each worker is a
\* thread of its own.
\* ---------------------------------------------------------------------

\* Threads the GUI starts, lines in the receive queue, and POS lines the
\* Arduino sends, at most.
MaxWorkers == 2
MaxQueue == 2
MaxPos == 1

\* Lines from the Arduino.  The move a DONE belongs to is not in the
\* line; it is kept beside it.
PosLine == [kind |-> "POS", move |-> 0]
DoneLine(n) == [kind |-> "DONE", move |-> n]

HasDone(msgs) == \E j \in 1..Len(msgs) : msgs[j].kind = "DONE"

NoStop == [set |-> FALSE, worker |-> 0, step |-> 0]

\* RobotControlWindow.__init__ (lines 370-397) and SerialInterface.__init__
\* (lines 173-178).
WindowInit ==
    /\ connected = FALSE
    /\ rx_queue = <<>>
    /\ seq_data = <<>>
    /\ seq_stop = FALSE
    /\ seq_running = FALSE
    /\ run_btn = FALSE
    /\ stop_btn = FALSE
    /\ workers = <<>>
    /\ seq_done = 0
    /\ gui = [pc |-> "idle", msgs |-> <<>>]
    /\ arduino = [owed |-> <<>>, done |-> {}, pos |-> 0, moves |-> 0]
    /\ tx = <<>>
    /\ stopped_at = NoStop

\* The GUI thread is between handlers.
GuiIdle == gui.pc = "idle"

\* A worker thread that has not ended.
Alive(k) == workers[k].pc # "ended"

\* _toggle_conn (lines 602-632): connect and disconnect.
ToggleConn ==
    /\ GuiIdle
    /\ calls < budget
    /\ connected' = ~connected
    /\ calls' = calls + 1
    /\ UNCHANGED <<rx_queue, seq_data, seq_stop, seq_running, run_btn, stop_btn,
                   workers, seq_done, gui, arduino, tx, stopped_at,
                   ekf_vars, sim_vars, prof_vars, quad_vars, budget>>

\* _load_seq (lines 693-717) with a valid file.
LoadSeq(data) ==
    /\ GuiIdle
    /\ calls < budget
    /\ seq_data' = data
    /\ run_btn' = TRUE
    /\ calls' = calls + 1
    /\ UNCHANGED <<connected, rx_queue, seq_stop, seq_running, stop_btn, workers,
                   seq_done, gui, arduino, tx, stopped_at,
                   ekf_vars, sim_vars, prof_vars, quad_vars, budget>>

\* The thread _run_seq starts, before its first statement.
NewWorker(data) ==
    [pc |-> "start", i |-> 1, seq |-> data, msgs |-> <<>>, move |-> 0,
     waited |-> "none", done_sent |-> FALSE, emitted |-> 0]

\* A _run_seq that starts a worker whether or not a sequence is running.
RunSeq_Unguarded ==
    /\ GuiIdle
    /\ calls < budget
    /\ run_btn
    /\ Len(workers) < MaxWorkers
    /\ calls' = calls + 1
    /\ IF seq_data = <<>>
       THEN UNCHANGED <<seq_stop, seq_running, run_btn, stop_btn, workers, stopped_at>>
       ELSE /\ seq_stop' = FALSE
            /\ seq_running' = TRUE
            /\ run_btn' = FALSE
            /\ stop_btn' = TRUE
            /\ workers' = Append(workers, NewWorker(<<>>))
            /\ stopped_at' = NoStop
    /\ UNCHANGED <<connected, rx_queue, seq_data, seq_done, gui, arduino, tx,
                   ekf_vars, sim_vars, prof_vars, quad_vars, budget>>

\* _run_seq (lines 719-729): a click on the enabled Run button.
RunSeq ==
    /\ GuiIdle
    /\ calls < budget
    /\ run_btn
    /\ Len(workers) < MaxWorkers
    /\ calls' = calls + 1
    /\ IF seq_data = <<>> \/ seq_running
       THEN UNCHANGED <<seq_stop, seq_running, run_btn, stop_btn, workers, stopped_at>>
       ELSE /\ seq_stop' = FALSE
            /\ seq_running' = TRUE
            /\ run_btn' = FALSE
            /\ stop_btn' = TRUE
            /\ workers' = Append(workers, NewWorker(<<>>))
            /\ stopped_at' = NoStop
    /\ UNCHANGED <<connected, rx_queue, seq_data, seq_done, gui, arduino, tx,
                   ekf_vars, sim_vars, prof_vars, quad_vars, budget>>

\* Where the worker that is running stands: the last step it may still
\* send the command of.  At the top of the loop it has not tested the
\* flag for step i yet; further on it has.
StopMark ==
    IF seq_stop THEN stopped_at
    ELSE IF \E k \in 1..Len(workers) : Alive(k)
    THEN LET k == CHOOSE k \in 1..Len(workers) : Alive(k)
         IN  [set |-> TRUE, worker |-> k,
              step |-> IF workers[k].pc \in {"start", "top"} THEN workers[k].i - 1
                       ELSE workers[k].i]
    ELSE [set |-> TRUE, worker |-> 0, step |-> 0]

\* _estop (lines 676-680): a click on the emergency stop button.
Estop ==
    /\ GuiIdle
    /\ calls < budget
    /\ seq_stop' = TRUE
    /\ stopped_at' = StopMark
    /\ tx' = IF connected
             THEN Append(tx, [cmd |-> "stop", worker |-> 0, step |-> 0,
                              stop |-> TRUE, mark |-> StopMark])
             ELSE tx
    /\ calls' = calls + 1
    /\ UNCHANGED <<connected, rx_queue, seq_data, seq_running, run_btn, stop_btn,
                   workers, seq_done, gui, arduino,
                   ekf_vars, sim_vars, prof_vars, quad_vars, budget>>

\* _stop_seq (lines 731-733): a click on the enabled Stop button.
StopSeq ==
    /\ GuiIdle
    /\ calls < budget
    /\ stop_btn
    /\ seq_stop' = TRUE
    /\ stopped_at' = StopMark
    /\ calls' = calls + 1
    /\ UNCHANGED <<connected, rx_queue, seq_data, seq_running, run_btn, stop_btn,
                   workers, seq_done, gui, arduino, tx,
                   ekf_vars, sim_vars, prof_vars, quad_vars, budget>>

\* _on_seq_done (lines 735-739): the GUI thread delivers a seq_done signal.
OnSeqDone ==
    /\ GuiIdle
    /\ seq_done > 0
    /\ seq_done' = seq_done - 1
    /\ seq_running' = FALSE
    /\ run_btn' = TRUE
    /\ stop_btn' = FALSE
    /\ UNCHANGED <<connected, rx_queue, seq_data, seq_stop, workers, gui, arduino,
                   tx, stopped_at, ekf_vars, sim_vars, prof_vars, quad_vars, calls, budget>>

\* _poll_serial (lines 819-823), on the 50 ms timer: the call of drain.
PollSerial ==
    /\ GuiIdle
    /\ connected
    /\ rx_queue # <<>>
    /\ gui' = [pc |-> "polling", msgs |-> <<>>]
    /\ UNCHANGED <<connected, rx_queue, seq_data, seq_stop, seq_running, run_btn,
                   stop_btn, workers, seq_done, arduino, tx, stopped_at,
                   ekf_vars, sim_vars, prof_vars, quad_vars, calls, budget>>

\* drain (lines 232-239) in the GUI thread: one get_nowait.
GuiDrainGet ==
    /\ gui.pc = "polling"
    /\ rx_queue # <<>>
    /\ gui' = [gui EXCEPT !.msgs = Append(@, Head(rx_queue))]
    /\ rx_queue' = Tail(rx_queue)
    /\ UNCHANGED <<connected, seq_data, seq_stop, seq_running, run_btn, stop_btn,
                   workers, seq_done, arduino, tx, stopped_at,
                   ekf_vars, sim_vars, prof_vars, quad_vars, calls, budget>>

\* drain finds the queue empty and returns; _handle_rx (lines 825-843)
\* shows each message.
GuiDrainEnd ==
    /\ gui.pc = "polling"
    /\ rx_queue = <<>>
    /\ gui' = [pc |-> "idle", msgs |-> <<>>]
    /\ UNCHANGED <<connected, rx_queue, seq_data, seq_stop, seq_running, run_btn,
                   stop_btn, workers, seq_done, arduino, tx, stopped_at,
                   ekf_vars, sim_vars, prof_vars, quad_vars, calls, budget>>

\* The worker k is at pc.
At(k, pc_) == k \in 1..Len(workers) /\ workers[k].pc = pc_

WorkerUnchanged ==
    UNCHANGED <<connected, seq_data, seq_stop, seq_running, run_btn, stop_btn,
                gui, stopped_at, ekf_vars, sim_vars, prof_vars, quad_vars, calls, budget>>

\* Line 744: the thread starts and takes the list that seq_data names.
WorkerStart(k) ==
    /\ At(k, "start")
    /\ workers' = [workers EXCEPT ![k].pc = "top", ![k].seq = seq_data]
    /\ WorkerUnchanged
    /\ UNCHANGED <<rx_queue, seq_done, arduino, tx>>

\* A loop that goes on to the next step whether or not the stop flag is
\* set.
WorkerTop_IgnoreStop(k) ==
    /\ At(k, "top")
    /\ workers' = [workers EXCEPT ![k].pc =
                      IF workers[k].i > Len(workers[k].seq)
                      THEN "finish" ELSE "command"]
    /\ WorkerUnchanged
    /\ UNCHANGED <<rx_queue, seq_done, arduino, tx>>

\* Lines 744-747 and 800-802: the next item of the for loop, and the test
\* of the stop flag.
WorkerTop(k) ==
    /\ At(k, "top")
    /\ workers' = [workers EXCEPT ![k].pc =
                      IF workers[k].i > Len(workers[k].seq) \/ seq_stop
                      THEN "finish" ELSE "command"]
    /\ WorkerUnchanged
    /\ UNCHANGED <<rx_queue, seq_done, arduino, tx>>

\* The command of the step the worker k is on.
Cmd(k) == workers[k].seq[workers[k].i]

\* Lines 752-796: the command of the step.  Connected, a move or a home
\* is written to the port and the worker waits for DONE; not connected,
\* it is shown and slept over; a delay starts its loop.
WorkerCommand(k) ==
    /\ At(k, "command")
    /\ IF Cmd(k) = "delay"
       THEN /\ workers' = [workers EXCEPT ![k].pc = "delay"]
            /\ UNCHANGED <<arduino, tx>>
       ELSE IF connected
       THEN /\ workers' = [workers EXCEPT ![k].pc = "wait",
                                          ![k].move = arduino.moves + 1,
                                          ![k].waited = "none",
                                          ![k].done_sent = FALSE]
            /\ arduino' = [arduino EXCEPT !.owed = Append(@, arduino.moves + 1),
                                          !.moves = @ + 1]
            /\ tx' = Append(tx, [cmd |-> Cmd(k), worker |-> k,
                                 step |-> workers[k].i, stop |-> seq_stop,
                                 mark |-> stopped_at])
       ELSE /\ workers' = [workers EXCEPT ![k].pc = "after"]
            /\ UNCHANGED <<arduino, tx>>
    /\ WorkerUnchanged
    /\ UNCHANGED <<rx_queue, seq_done>>

\* The write to the port raises (the port has gone): line 803 catches it.
WorkerRaise(k) ==
    /\ At(k, "command")
    /\ Cmd(k) # "delay"
    /\ connected
    /\ workers' = [workers EXCEPT ![k].pc = "finish"]
    /\ WorkerUnchanged
    /\ UNCHANGED <<rx_queue, seq_done, arduino, tx>>

\* _wait_done (lines 808-816): the test of the loop.  With the stop flag
\* set the call returns False; otherwise it calls drain.
WorkerWaitCheck(k) ==
    /\ At(k, "wait")
    /\ workers' = [workers EXCEPT
                      ![k].pc = IF seq_stop THEN "after" ELSE "drain",
                      ![k].waited = IF seq_stop THEN "stop" ELSE @,
                      ![k].done_sent = workers[k].move \in arduino.done]
    /\ WorkerUnchanged
    /\ UNCHANGED <<rx_queue, seq_done, arduino, tx>>

\* _wait_done: the 60 s have passed and the call returns False.  The
\* worker looks into the queue every 50 ms, so the 60 s do not pass while
\* a DONE lies in the queue.
WorkerWaitTimeout(k) ==
    /\ At(k, "wait")
    /\ ~seq_stop
    /\ ~HasDone(rx_queue)
    /\ workers' = [workers EXCEPT
                      ![k].pc = "after",
                      ![k].waited = "timeout",
                      ![k].done_sent = workers[k].move \in arduino.done]
    /\ WorkerUnchanged
    /\ UNCHANGED <<rx_queue, seq_done, arduino, tx>>

\* drain (lines 232-239) in the worker thread: one get_nowait.
WorkerDrainGet(k) ==
    /\ At(k, "drain")
    /\ rx_queue # <<>>
    /\ workers' = [workers EXCEPT ![k].msgs = Append(@, Head(rx_queue))]
    /\ rx_queue' = Tail(rx_queue)
    /\ WorkerUnchanged
    /\ UNCHANGED <<seq_done, arduino, tx>>

\* drain finds the queue empty and returns; lines 811-815: True on a
\* DONE among the messages, otherwise sleep and test again.
WorkerDrainEnd(k) ==
    /\ At(k, "drain")
    /\ rx_queue = <<>>
    /\ workers' = [workers EXCEPT
                      ![k].pc = IF HasDone(workers[k].msgs) THEN "after" ELSE "wait",
                      ![k].waited = IF HasDone(workers[k].msgs) THEN "True" ELSE @,
                      ![k].done_sent = workers[k].move \in arduino.done,
                      ![k].msgs = <<>>]
    /\ WorkerUnchanged
    /\ UNCHANGED <<rx_queue, seq_done, arduino, tx>>

\* Lines 784-786: the loop of a delay ends when the time is over or the
\* stop flag is set.
WorkerDelay(k) ==
    /\ At(k, "delay")
    /\ workers' = [workers EXCEPT ![k].pc = "after"]
    /\ WorkerUnchanged
    /\ UNCHANGED <<rx_queue, seq_done, arduino, tx>>

\* Lines 764, 779, 796, 799: the log line and the progress bar, and on to
\* the next step.
WorkerAfter(k) ==
    /\ At(k, "after")
    /\ workers' = [workers EXCEPT ![k].pc = "top", ![k].i = @ + 1]
    /\ WorkerUnchanged
    /\ UNCHANGED <<rx_queue, seq_done, arduino, tx>>

\* Lines 805-806: finally, seq_done.emit(), and the thread ends.
WorkerFinish(k) ==
    /\ At(k, "finish")
    /\ workers' = [workers EXCEPT ![k].pc = "ended", ![k].emitted = @ + 1]
    /\ seq_done' = seq_done + 1
    /\ WorkerUnchanged
    /\ UNCHANGED <<rx_queue, arduino, tx>>

ArduinoUnchanged ==
    UNCHANGED <<connected, seq_data, seq_stop, seq_running, run_btn, stop_btn,
                workers, seq_done, gui, tx, stopped_at,
                ekf_vars, sim_vars, prof_vars, quad_vars, calls, budget>>

\* The Arduino sends a POS line, and _read_loop (lines 199-209) puts it
\* into the queue.
ArduinoPos ==
    /\ connected
    /\ arduino.pos < MaxPos
    /\ Len(rx_queue) < MaxQueue
    /\ rx_queue' = Append(rx_queue, PosLine)
    /\ arduino' = [arduino EXCEPT !.pos = @ + 1]
    /\ ArduinoUnchanged

\* The Arduino completes the oldest move and sends DONE.
ArduinoDone ==
    /\ connected
    /\ arduino.owed # <<>>
    /\ Len(rx_queue) < MaxQueue
    /\ rx_queue' = Append(rx_queue, DoneLine(Head(arduino.owed)))
    /\ arduino' = [arduino EXCEPT !.owed = Tail(@),
                                  !.done = @ \cup {Head(arduino.owed)}]
    /\ ArduinoUnchanged

WorkerNext(k) ==
    \/ WorkerStart(k)
    \/ WorkerTop(k)
    \/ WorkerCommand(k)
    \/ WorkerRaise(k)
    \/ WorkerWaitCheck(k)
    \/ WorkerWaitTimeout(k)
    \/ WorkerDrainGet(k)
    \/ WorkerDrainEnd(k)
    \/ WorkerDelay(k)
    \/ WorkerAfter(k)
    \/ WorkerFinish(k)

RobotNext ==
    \/ ToggleConn
    \/ \E data \in SeqDataSet : LoadSeq(data)
    \/ RunSeq
    \/ Estop
    \/ StopSeq
    \/ OnSeqDone
    \/ PollSerial
    \/ GuiDrainGet
    \/ GuiDrainEnd
    \/ \E k \in 1..MaxWorkers : WorkerNext(k)
    \/ ArduinoPos
    \/ ArduinoDone

\* ---------------------------------------------------------------------
\* quad_out_script1.py: the quadrature generator, and output_display.py:
\* the reader thread of LiveDisplay at the other end of its stdout.
\* Angles are counted in ticks, AngleSub ticks to one encoder position
\* (360 / (4 * CPR) degrees).
\* ---------------------------------------------------------------------

CPR == 4096
AngleSub == 2
Positions == 4 * CPR
Turn == Positions * AngleSub

\* A quadrature_pattern_from_angle whose table counts in binary.
quadrature_pattern_from_angle_Binary(angle_deg) ==
    LET position == (((angle_deg % Turn) * Positions) \div Turn) % Positions
        state == position % 4
        patterns == <<<<0, 0>>, <<1, 0>>, <<0, 1>>, <<1, 1>>>>
    IN  patterns[state + 1]

\* quadrature_pattern_from_angle (lines 24-34): int() cuts the position
\* down to a whole number.
quadrature_pattern_from_angle(angle_deg) ==
    LET position == (((angle_deg % Turn) * Positions) \div Turn) % Positions
        state == position % 4
        patterns == <<<<0, 0>>, <<1, 0>>, <<1, 1>>, <<0, 1>>>>
    IN  patterns[state + 1]

NoPatternCall == [called |-> FALSE, p |-> 0, s |-> 0, first |-> <<0, 0>>, second |-> <<0, 0>>]

\* A caller takes the pattern of an angle within position p and of the
\* angle one position further on, around the turn.
PatternCalls ==
    /\ ~quad.called
    /\ quad' = [quad EXCEPT
                  !.called = TRUE,
                  !.first = quadrature_pattern_from_angle(quad.p * AngleSub + quad.s),
                  !.second = quadrature_pattern_from_angle(
                                 ((quad.p + 1) % Positions) * AngleSub + quad.s)]
    /\ UNCHANGED <<gen, pipe, num_axes, a1_buf, b1_buf, a2_buf, b2_buf, index,
                   angle1_label, angle2_label, last_line,
                   ekf_vars, sim_vars, prof_vars, robot_vars, calls, budget>>

\* round(n / d) of Python for n, d > 0: to the nearest, a tie to the even
\* neighbour.
RoundDiv(n, d) ==
    LET q == n \div d
        r == n % d
    IN  IF 2 * r < d THEN q
        ELSE IF 2 * r > d THEN q + 1
        ELSE IF q % 2 = 0 THEN q ELSE q + 1

\* quantize_angle_to_cpr (lines 20-22) followed by % 360.0 (lines 49-50),
\* for an angle of n / d degrees: the position the angle is nearest to.
quantize_angle_to_cpr(n, d) == RoundDiv(n * Positions, 360 * d) % Positions

\* A field of a CSV line: text that int() accepts, or the text of a float
\* with four decimals, which int() rejects; val is the number, for a float
\* in 0.0001 degrees.
IntField(v) == [int |-> TRUE, val |-> v]
FloatField(v) == [int |-> FALSE, val |-> v]

\* f"{angle:.4f}" (lines 57, 61) of the angle of a position: 360 / 16384
\* degrees are 28125 / 128 of 0.0001 degrees.
AngleField(position) == FloatField(RoundDiv(position * 28125, 128))

\* How many lines the generator writes, how many the pipe holds, and how
\* many samples a waveform buffer keeps.
MaxIter == 40
MaxPipe == 2
SAMPLES == 3

\* main (lines 36-68): one turn of the loop of the generator.
GenEmit ==
    /\ gen.iteration < MaxIter
    /\ Len(pipe) < MaxPipe
    /\ LET it == gen.iteration
           \* t = iteration * 0.05; raw_angle1 = t % 360
           angle1 == quantize_angle_to_cpr((it % 7200) * 5, 100)
           \* raw_angle2 = (t * 10 + 90) % 360
           angle2 == quantize_angle_to_cpr((it + 180) % 720, 2)
           ab1 == quadrature_pattern_from_angle(angle1 * AngleSub)
           ab2 == quadrature_pattern_from_angle(angle2 * AngleSub)
           idx == IF angle1 = 0 THEN 1 ELSE 0
           line == IF gen.num_axes = 1
                   THEN <<IntField(ab1[1]), IntField(ab1[2]), IntField(idx),
                          AngleField(angle1)>>
                   ELSE <<IntField(ab1[1]), IntField(ab1[2]),
                          IntField(ab2[1]), IntField(ab2[2]), IntField(idx),
                          AngleField(angle1), AngleField(angle2)>>
       IN  pipe' = Append(pipe, line)
    /\ gen' = [gen EXCEPT !.iteration = @ + 1]
    /\ UNCHANGED <<quad, num_axes, a1_buf, b1_buf, a2_buf, b2_buf, index,
                   angle1_label, angle2_label, last_line,
                   ekf_vars, sim_vars, prof_vars, robot_vars, calls, budget>>

\* float(text) of a field, in 0.0001 degrees.
FloatOf(f) == IF f.int THEN f.val * 10000 ELSE f.val

\* f"{angle:.3f}" (lines 96, 105-106) of a float read from four decimals,
\* in 0.001 degrees: a last decimal of 5 goes up or down with the binary
\* value of the float.
Format3(v) ==
    IF v % 10 < 5 THEN {v \div 10}
    ELSE IF v % 10 > 5 THEN {v \div 10 + 1}
    ELSE {v \div 10, v \div 10 + 1}

\* deque.append on a full deque of maxlen SAMPLES.
Push(buf, v) == Append(Tail(buf), v)

\* The try block (lines 89-107) parses parts as n axes without raising.
Parses(parts, n) ==
    IF n = 1
    THEN Len(parts) >= 4 /\ \A j \in 1..3 : parts[j].int
    ELSE Len(parts) >= 7 /\ \A j \in 1..5 : parts[j].int

\* The number of axes after the auto-detection (lines 79-87); 0 is None.
Detected(parts) ==
    IF num_axes # 0 THEN num_axes
    ELSE IF Len(parts) = 4 THEN 1
    ELSE IF Len(parts) = 7 THEN 2
    ELSE 0

\* reader (lines 71-108): one turn of the loop over the lines of stdout.
ReaderLine ==
    /\ pipe # <<>>
    /\ LET parts == Head(pipe)
           n == Detected(parts)
       IN  /\ pipe' = Tail(pipe)
           /\ last_line' = parts
           /\ num_axes' = n
           /\ IF n = 0 \/ ~Parses(parts, n)
              THEN UNCHANGED <<a1_buf, b1_buf, a2_buf, b2_buf, index,
                               angle1_label, angle2_label>>
              ELSE IF n = 1
              THEN /\ a1_buf' = Push(a1_buf, parts[1].val)
                   /\ b1_buf' = Push(b1_buf, parts[2].val)
                   /\ angle1_label' \in Format3(FloatOf(parts[4]))
                   /\ index' = parts[3].val
                   /\ UNCHANGED <<a2_buf, b2_buf, angle2_label>>
              ELSE /\ a1_buf' = Push(a1_buf, parts[1].val)
                   /\ b1_buf' = Push(b1_buf, parts[2].val)
                   /\ a2_buf' = Push(a2_buf, parts[3].val)
                   /\ b2_buf' = Push(b2_buf, parts[4].val)
                   /\ angle1_label' \in Format3(FloatOf(parts[6]))
                   /\ angle2_label' \in Format3(FloatOf(parts[7]))
                   /\ index' = parts[5].val
    /\ UNCHANGED <<quad, gen, ekf_vars, sim_vars, prof_vars, robot_vars, calls, budget>>

\* LiveDisplay.__init__ (lines 40-48); -1 is the text '--.-' of a label.
\* src/output_display.py sets num_axes to 2, src/Quadrature/
\* output_display.py sets it to 1.
DisplayInit(n) ==
    /\ num_axes = n
    /\ a1_buf = [j \in 1..SAMPLES |-> 0]
    /\ b1_buf = [j \in 1..SAMPLES |-> 0]
    /\ a2_buf = [j \in 1..SAMPLES |-> 0]
    /\ b2_buf = [j \in 1..SAMPLES |-> 0]
    /\ index = 0
    /\ angle1_label = -1
    /\ angle2_label = -1
    /\ last_line = <<>>

\* No call of the function, no generator running, the display of
\* src/output_display.py as constructed.
NoQuadrature ==
    /\ quad = NoPatternCall
    /\ gen = [num_axes |-> 1, iteration |-> 0]
    /\ pipe = <<>>
    /\ DisplayInit(2)

DisplayNext == GenEmit \/ ReaderLine

\* ---------------------------------------------------------------------
\* Specifications.
\* ---------------------------------------------------------------------

Init == EKFInit /\ SimInit /\ calls = 0 /\ budget = MaxCalls /\ NoProfiles /\ WindowInit /\ NoQuadrature

\* The filter beside a simulator that is left as constructed by default.
EKFOnlyInit == EKFInit /\ SimInitAt(<<0, 0, 0>>) /\ calls = 0 /\ budget = MaxCalls /\ NoProfiles /\ WindowInit /\ NoQuadrature

\* A caller with one filter and one simulator.
Next == EKFNext \/ SimNext
Spec == Init /\ [][Next]_vars

\* The filter alone.
EKFSpec == EKFOnlyInit /\ [][EKFNext]_vars

\* The filter alone, under callers that pass only dt > 0 to predict.
PosDtNext ==
    \/ \E gyro \in GyroSet, dt \in {d \in DtSet : d > 0} : PredictBegin(gyro, dt)
    \/ PredictEnd
    \/ \E z \in ZSet : UpdateBegin(z)
    \/ UpdateInvert
    \/ UpdateEnd
PosDtSpec == EKFOnlyInit /\ [][PosDtNext]_vars

\* The simulator alone, constructed with any rng argument, beside a
\* filter that is left as constructed.
SimOnlyInit == EKFInit /\ SimAnyInit /\ calls = 0 /\ budget = MaxCalls /\ NoProfiles /\ WindowInit /\ NoQuadrature
SimSpec == SimOnlyInit /\ [][SimNext]_vars

\* Predict-only runs on a static simulator without noise: every predict
\* is given the gyro reading, which is the simulator's bias, and the same
\* dt.
DriftCalls == 12
DriftBiasSet == { <<100, 0, 0>>, <<50, 0, 0>>, <<4, 4, 4>>, <<0, 50, 50>>, <<100, 50, 50>> }
DriftDtSet == { 10, 100 }

NoiseFree(bias) ==
    [accel_noise_std |-> <<0, 0, 0>>, gyro_noise_std |-> <<0, 0, 0>>,
     gyro_bias |-> bias]

DriftInit ==
    /\ EKFInit
    /\ \E bias \in DriftBiasSet : SimInitWith(<<0, 0, 0>>, NoiseFree(bias), Seeded(1))
    /\ calls = 0
    /\ budget = DriftCalls
    /\ NoProfiles /\ WindowInit /\ NoQuadrature

\* The caller reads the gyro, then predicts with the reading.
DriftNext ==
    \/ pc = "idle" /\ calls % 2 = 0 /\ ReadGyro
    \/ \E dt \in DriftDtSet :
          /\ calls % 2 = 1
          /\ call.op = "none" \/ call.dt = dt
          /\ PredictBegin(reading, dt)
    \/ PredictEnd

DriftSpec == DriftInit /\ [][DriftNext]_vars

\* Predict-then-update cycles on a static simulator without noise and
\* without gyro bias, at the true orientation (roll, pitch) = (0.2, -0.1):
\* predict is given the gyro reading and dt = 0.01, update the angles
\* from the accelerometer reading.
ConvSteps == 500
ConvDt == Scale \div 100
Truth == <<20, -10, 0>>

ConvInit ==
    /\ EKFInit
    /\ config.q_roll > 0 /\ config.q_pitch > 0 /\ config.q_bias > 0
    /\ config.r_roll > 0 /\ config.r_pitch > 0
    /\ SimInitWith(Truth, NoiseFree(<<0, 0, 0>>), Seeded(1))
    /\ calls = 0
    /\ budget = 4 * ConvSteps
    /\ NoProfiles /\ WindowInit /\ NoQuadrature

\* One cycle is four calls: read_gyro, predict, read_roll_pitch_from_accel,
\* update.
ConvNext ==
    \/ pc = "idle" /\ calls % 4 = 0 /\ ReadGyro
    \/ calls % 4 = 1 /\ PredictBegin(reading, ConvDt)
    \/ PredictEnd
    \/ pc = "idle" /\ calls % 4 = 2 /\ ReadRollPitchFromAccel
    \/ calls % 4 = 3 /\ UpdateBegin(reading)
    \/ UpdateInvert
    \/ UpdateEnd

ConvSpec == ConvInit /\ [][ConvNext]_vars

\* A caller that has one factory make a profile and calls the profile at
\* times of its choice, in any order, beside a filter and a simulator that
\* are left as constructed.
ProfileCalls == 3
ProfileInit ==
    /\ EKFInit
    /\ SimInitAt(<<0, 0, 0>>)
    /\ NoProfiles /\ WindowInit /\ NoQuadrature
    /\ calls = 0
    /\ budget = ProfileCalls
ProfileSpec == ProfileInit /\ [][ProfileNext]_vars

\* The robot window with its user, its worker threads and the Arduino,
\* beside a filter and a simulator that are left as constructed.  The user
\* clicks at most RobotCalls times.
RobotCalls == 5
RobotInit ==
    /\ EKFInit
    /\ config.q_roll > 0 /\ config.r_roll > 0
    /\ SimInitAt(<<0, 0, 0>>)
    /\ NoProfiles
    /\ WindowInit /\ NoQuadrature
    /\ calls = 0
    /\ budget = RobotCalls
RobotSpec == RobotInit /\ [][RobotNext]_vars

\* The same with scheduling: every thread that can take a step takes one
\* in the end (the worker threads under the operating system, the handler
\* the GUI thread is in), and the Qt event loop delivers a queued signal.
\* The user clicks at most LiveCalls times.
LiveCalls == 4
RobotLiveInit ==
    /\ EKFInit
    /\ config.q_roll > 0 /\ config.r_roll > 0
    /\ SimInitAt(<<0, 0, 0>>)
    /\ NoProfiles
    /\ WindowInit /\ NoQuadrature
    /\ calls = 0
    /\ budget = LiveCalls
\* A caller of quadrature_pattern_from_angle with any position of the
\* turn and any angle within it.
QuadInit ==
    /\ EKFInit
    /\ config.q_roll > 0 /\ config.r_roll > 0
    /\ SimInitAt(<<0, 0, 0>>)
    /\ NoProfiles
    /\ WindowInit
    /\ \E p \in 0..(Positions - 1), s \in 0..(AngleSub - 1) :
          quad = [NoPatternCall EXCEPT !.p = p, !.s = s]
    /\ gen = [num_axes |-> 1, iteration |-> 0]
    /\ pipe = <<>>
    /\ DisplayInit(2)
    /\ calls = 0
    /\ budget = MaxCalls
QuadSpec == QuadInit /\ [][PatternCalls]_vars

\* The generator with NUM_AXES set to 1 or to 2, and either of the two
\* displays reading its lines.
DisplaySpecInit ==
    /\ EKFInit
    /\ config.q_roll > 0 /\ config.r_roll > 0
    /\ SimInitAt(<<0, 0, 0>>)
    /\ NoProfiles
    /\ WindowInit
    /\ quad = NoPatternCall
    /\ \E n \in {1, 2} : gen = [num_axes |-> n, iteration |-> 0]
    /\ pipe = <<>>
    /\ \E n \in {1, 2} : DisplayInit(n)
    /\ calls = 0
    /\ budget = MaxCalls
DisplaySpec == DisplaySpecInit /\ [][DisplayNext]_vars

RobotLiveSpec ==
    /\ RobotLiveInit
    /\ [][RobotNext]_vars
    /\ \A k \in 1..MaxWorkers : WF_vars(WorkerNext(k))
    /\ WF_vars(OnSeqDone)
    /\ WF_vars(GuiDrainGet \/ GuiDrainEnd)

\* The filter alone with a valid configuration, under callers that make
\* one call more: long enough for an update between predicts to fill the
\* covariances between the biases.
LongCalls == 4
LongInit ==
    /\ EKFInit
    /\ config.q_roll > 0 /\ config.q_pitch > 0 /\ config.q_bias > 0
    /\ config.r_roll > 0 /\ config.r_pitch > 0
    /\ SimInitAt(<<0, 0, 0>>)
    /\ NoProfiles /\ WindowInit /\ NoQuadrature
    /\ calls = 0
    /\ budget = LongCalls
LongSpec == LongInit /\ [][EKFNext]_vars

\* ---------------------------------------------------------------------
\* Properties.
\* ---------------------------------------------------------------------

\* A predict, or an update, has returned.
PredictDone == call.op = "predict" /\ pc = "idle"
UpdateDone == call.op = "update" /\ pc = "idle"

\* The five noise values of the configuration are positive.
ValidConfig ==
    /\ config.q_roll > 0 /\ config.q_pitch > 0 /\ config.q_bias > 0
    /\ config.r_roll > 0 /\ config.r_pitch > 0

\* C1: predict with dt <= 0 fails with InvalidInput and leaves x and P as
\* they were before the call.  (predict has no failing path, so what the
\* formula can state of "fails" is its effect: nothing was changed.)
C1_PredictRejectsNonPositiveDt ==
    (PredictDone /\ call.dt <= 0) => (x = pre.x /\ P = pre.P)

\* C2: no filter exists whose configuration has a noise value that is
\* zero or negative.
C2_ConfigPositive == ValidConfig

\* The smallest positive determinant threshold on the grid: one grid
\* step, 1 / Scale (Det2 is at Scale^2).
DetThreshold == Scale

\* C3: an update whose innovation covariance S has a determinant below the
\* threshold fails, and produces no new state.
C3_UpdateFailsBelowThreshold ==
    (UpdateDone /\ ValidConfig /\ Abs(Det2(S_log[Len(S_log)])) < DetThreshold) =>
        (result # "ok" /\ x = pre.x /\ P = pre.P)

\* C4: an update that fails leaves x and P as they were before the call.
C4_FailedUpdateLeavesState ==
    (UpdateDone /\ result # "ok") => (x = pre.x /\ P = pre.P)

C4_Witness == UpdateDone /\ result = "LinAlgError" /\ pre.x # Zeros5

\* The largest difference between P and its transpose is at most t.
SymmetricWithin(t) == \A i \in N5, j \in N5 : Abs(P[i][j] - P[j][i]) <= t

\* The tolerance allowed to C5 and C6.  The 1e-9 of the claims is a
\* thousandth of eps, below one grid step; the formulas allow five whole
\* grid steps, which is more than the rounding of one operation.
Tolerance == 5 * Eps

\* C5: after every predict (dt > 0) and update, P is symmetric up to the
\* tolerance.  Stated for the valid configurations, under PosDtSpec.
C5_CovarianceSymmetric ==
    (pc = "idle" /\ ValidConfig) => SymmetricWithin(Tolerance)

\* C6: after every predict (dt > 0) and update, P is positive
\* semi-definite up to the tolerance; in particular every variance
\* P[i][i] is non-negative.  Stated for the valid configurations, under
\* PosDtSpec.
C6_VariancesNonNegative ==
    (pc = "idle" /\ ValidConfig) => \A i \in N5 : P[i][i] >= -Tolerance

\* The covariance the call in progress is going to write.
PendingP ==
    IF pc = "predict_P"
    THEN PredictCov(P, Jacobian(pre.x, call.gyro, call.dt),
                    ProcessNoise(config, call.dt))
    ELSE IF pc = "update_P"
    THEN UpdateCov(P, KalmanGain(pre.P, InnovationCov(pre.P, config)))
    ELSE P

\* C7: at no point of a predict or an update does the filter hold the new
\* x together with the P of before the call (while the call has a
\* different P to write).
C7_StateChangesAtomically ==
    ~(/\ pc \in {"predict_P", "update_P"}
      /\ finite
      /\ x # pre.x
      /\ P = pre.P
      /\ PendingP # pre.P)

\* C8: the pitch stored by predict is the pitch stored before the call
\* plus pitch_dot * dt: the guard's clamp is not stored.
C8_PredictClampIsLocal ==
    (PredictDone /\ finite) =>
        x[2] = pre.x[2] + Mul(PitchDot(Rates(pre.x, call.gyro), pre.x[1]), call.dt)

\* The stored pitch p is within eps of +pi/2 or of -pi/2.
NearGimbalLock(p) == Abs(Abs(p) - HalfPi) <= Eps

\* C9: the pitch stored by step is the pitch stored before the call plus
\* pitch_dot * dt, and a step with zero angular velocity leaves roll,
\* pitch and yaw as they were, also near gimbal lock.
C9_StepClampIsLocal ==
    (sim_call.op = "step" /\ sim_finite) =>
        /\ pitch = sim_pre[2]
                   + Mul(PitchDot(angular_velocity_body, sim_pre[1]), sim_call.dt)
        /\ angular_velocity_body = <<0, 0, 0>> => <<roll, pitch, yaw>> = sim_pre

C9_Witness ==
    /\ sim_call.op = "step"
    /\ sim_finite
    /\ NearGimbalLock(sim_pre[2])
    /\ angular_velocity_body = <<0, 0, 0>>
    /\ <<roll, pitch, yaw>> = sim_pre

\* C10: when the stored pitch is within eps of +-pi/2, predict and step
\* take tan and 1/cos^2 at sign(pitch) * (pi/2 - eps), where both are
\* finite, the call returns normally, and the state, the orientation and
\* the covariance stay finite.
C10_GimbalLockSafety ==
    /\ (call.op = "predict" /\ NearGimbalLock(pre.x[2])) =>
          /\ call.pitch = Sign(pre.x[2]) * (HalfPi - Eps)
          /\ TrigFinite(call.pitch)
          /\ finite
          /\ pc = "idle" => result = "ok"
    /\ (sim_call.op = "step" /\ NearGimbalLock(sim_pre[2])) =>
          /\ sim_call.pitch = Sign(sim_pre[2]) * (HalfPi - Eps)
          /\ TrigFinite(sim_call.pitch)
          /\ sim_finite

C10_Witness ==
    /\ PredictDone /\ NearGimbalLock(pre.x[2]) /\ result = "ok"
    /\ sim_call.op = "step" /\ NearGimbalLock(sim_pre[2])

\* The bias components of a state vector.
Biases(xv) == <<xv[3], xv[4], xv[5]>>

\* C11: predict leaves bias_x, bias_y and bias_z as they were before the
\* call, for every state, gyro input and dt > 0; a step that changes a
\* bias is the step of an update that writes self.x.
C11_PredictKeepsBiases ==
    /\ [](call.op = "predict" => Biases(x) = Biases(pre.x))
    /\ [][Biases(x') # Biases(x) => pc = "update_inv"]_vars

C11_Witness ==
    /\ PredictDone /\ finite
    /\ call.dt > 0
    /\ Biases(pre.x) # <<0, 0, 0>>
    /\ x[1] # pre.x[1]

\* The step begins an update: lines 140-160 run.
BeginsUpdate == pc = "idle" /\ pc' = "update_inv"

\* C12: the log is append-only with one record per update.  The step
\* that begins an update appends exactly one y to innovation_log and one
\* S to S_log; no other step of predict or update changes either log;
\* the two logs have equal length in every reachable state.
C12_LogAppendOnly ==
    /\ [](Len(innovation_log) = Len(S_log))
    /\ [][IF BeginsUpdate
          THEN /\ innovation_log' = Append(innovation_log, Innovation(x, call'.z))
               /\ S_log' = Append(S_log, InnovationCov(P, config))
          ELSE /\ innovation_log' = innovation_log
               /\ S_log' = S_log]_vars

C12_Witness ==
    /\ PredictDone
    /\ Len(innovation_log) = 2
    /\ innovation_log[1] # innovation_log[2]
    /\ S_log[1] # S_log[2]

\* The step writes self.x by the formula of predict (line 75) or of
\* update (line 164).
WritesXByFormula ==
    \/ /\ pc = "idle" /\ pc' = "predict_P"
       /\ x' = PredictState(x, call'.gyro, call'.dt)
    \/ /\ pc = "update_inv"
       /\ x' = UpdateState(x, KalmanGain(P, InnovationCov(P, config)),
                           Innovation(x, call.z))

\* The step writes self.P by the formula of predict (line 132) or of
\* update (line 166).
WritesPByFormula ==
    \/ /\ pc = "predict_P"
       /\ P' = PredictCov(P, Jacobian(pre.x, call.gyro, call.dt),
                          ProcessNoise(config, call.dt))
    \/ /\ pc = "update_P"
       /\ P' = UpdateCov(P, KalmanGain(pre.P, InnovationCov(pre.P, config)))

\* C14: a newly constructed filter has x = 0, P = I and empty logs, and
\* predict and update never reset x or P: every step that changes x or P
\* gives it the value of the predict or update formula.
C14_ConstructedThenNeverReset ==
    /\ x = Zeros5 /\ P = Eye5 /\ innovation_log = <<>> /\ S_log = <<>>
    /\ [][/\ x' # x => WritesXByFormula
          /\ P' # P => WritesPByFormula]_vars

C14_Witness ==
    /\ PredictDone /\ finite
    /\ ~Within(P, 10 * Scale)
    /\ x # Zeros5

\* C13: logging has no influence on the computation.  The second filter
\* has the config, x and P of the first and other log contents, and gets
\* the same calls: the two have equal x and P in every state.
C13_LogDoesNotInfluenceState ==
    twin.innovation_log # innovation_log => (x = twin.x /\ P = twin.P)

C13_Witness ==
    /\ UpdateDone /\ result = "ok"
    /\ Len(innovation_log) = 2
    /\ twin.innovation_log # innovation_log
    /\ twin.S_log # S_log
    /\ x # pre.x /\ P # pre.P
    /\ twin.x = x

\* The last call on the simulator was a read of a sensor.
ReadDone ==
    sim_call.op \in {"read_accel", "read_gyro", "read_roll_pitch_from_accel"}

\* C15: two simulators constructed with identically seeded generators
\* and given the same calls return identical read_accel and read_gyro
\* outputs at every position of the sequence.
C15_DeterministicSimulation ==
    (sensor.rng_given /\ ReadDone) =>
        (reading = sim_twin.reading /\ rng = sim_twin.rng)

C15_Witness ==
    /\ sensor.rng_given
    /\ sim_call.op = "read_accel"
    /\ calls = MaxCalls
    /\ <<roll, pitch, yaw>> \notin InitOrientationSet
    /\ rng # SeedState(1) /\ rng # SeedState(2)
    /\ reading = sim_twin.reading

\* C16: every simulator instance draws its noise from a generator the
\* caller passed at construction.
C16_GeneratorAlwaysExplicit == sensor.rng_given

\* The last call was roll_pitch_from_accel(a).
AnglesFrom(a) == sim_call.op = "roll_pitch_from_accel" /\ sim_call.arg = a

\* C17: roll_pitch_from_accel returns (0, 0) within 1e-6 for accel =
\* [0, 0, -9.81], and roll = -pi/2 within 1e-6 for accel = [0, 9.81, 0].
C17_AccelToAngles ==
    /\ AnglesFrom(<<0, 0, -Gravity>>) =>
          (Abs(reading[1]) <= Eps /\ Abs(reading[2]) <= Eps)
    /\ AnglesFrom(<<0, Gravity, 0>>) => Abs(reading[1] + HalfPi) <= Eps

\* C17 as amended: roll_pitch_from_accel returns (0, 0) within 1e-6 for
\* accel = [0, 0, -9.81], and roll = +pi/2 within 1e-6 for accel =
\* [0, 9.81, 0].
C17_AccelToAnglesAmended ==
    /\ AnglesFrom(<<0, 0, -Gravity>>) =>
          (Abs(reading[1]) <= Eps /\ Abs(reading[2]) <= Eps)
    /\ AnglesFrom(<<0, Gravity, 0>>) => Abs(reading[1] - HalfPi) <= Eps

C17_Witness ==
    /\ AnglesFrom(<<0, Gravity, 0>>)
    /\ reading = <<HalfPi, 0>>

\* Predicts made so far in a predict-only run, each after one read_gyro.
Predicts == calls \div 2

\* C18: predict-only, from x = 0, with a constant gyro input equal to the
\* uncorrected bias: after n predicts of step dt the roll estimate is
\* n * dt * bias_x.
C18_RollDriftsAtBiasX ==
    PredictDone => x[1] = Predicts * Mul(call.dt, sensor.gyro_bias[1])

\* C18 as amended: the same, for a bias along x only (bias_y = bias_z =
\* 0); the pitch estimate then stays 0.
C18_RollDriftsAtBiasXAmended ==
    (PredictDone /\ sensor.gyro_bias[2] = 0 /\ sensor.gyro_bias[3] = 0) =>
        /\ x[1] = Predicts * Mul(call.dt, sensor.gyro_bias[1])
        /\ x[2] = 0

C18_Witness ==
    /\ PredictDone
    /\ Predicts >= 4
    /\ call.gyro = sensor.gyro_bias
    /\ sensor.gyro_bias[1] # 0 /\ sensor.gyro_bias[2] = 0 /\ sensor.gyro_bias[3] = 0
    /\ x[1] = Predicts * Mul(call.dt, sensor.gyro_bias[1])
    /\ x[1] # 0

\* 1e-3 rad on the grid: below one grid step, so the estimate must equal the
\* truth to the grid step.
ConvTol == Scale \div 1000

\* (roll_est, pitch_est) is within 1e-3 rad of the true orientation.
NearTruth == Abs(x[1] - Truth[1]) <= ConvTol /\ Abs(x[2] - Truth[2]) <= ConvTol

\* C19: with zero sensor noise and zero gyro bias, from x = 0 and P = I,
\* predict-then-update cycles at dt = 0.01 on the static orientation
\* (0.2, -0.1) bring (roll_est, pitch_est) within 1e-3 rad of the truth
\* within 500 steps: the estimate is there after the 500th cycle.
C19_ConvergesWithin500Steps ==
    (UpdateDone /\ calls = budget) => (result = "ok" /\ NearTruth)

C19_Witness ==
    /\ UpdateDone /\ calls = 4 * ConvSteps
    /\ Len(innovation_log) = ConvSteps
    /\ x[1] = Truth[1] /\ x[2] = Truth[2]

\* C20: every profile is a pure function of t: whatever calls were made on
\* it before, and at whichever times, a call at t returns what the profile
\* as the factory returned it returns at t, so two calls at the same t
\* return the same value; and the static profile returns its orientation
\* with zero acceleration and zero angular velocity at every t.
C20_ProfilesArePure ==
    /\ \A i \in 1..Len(evals) : evals[i].out = ProfileAt(made, evals[i].t)
    /\ \A i, j \in 1..Len(evals) :
          evals[i].t = evals[j].t => evals[i].out = evals[j].out
    /\ made.kind = "static" =>
          \A i \in 1..Len(evals) : evals[i].out = <<made.orientation, Zeros3, Zeros3>>

C20_Witness ==
    /\ Len(evals) = 3
    /\ made.kind = "sinusoidal"
    /\ evals[1].t = evals[3].t
    /\ evals[2].t # evals[1].t
    /\ evals[1].out # evals[2].out
    /\ evals[1].out[1][1] # 0

\* C21: the clamp is applied only within eps of +-pi/2.  When the stored
\* pitch differs from both +pi/2 and -pi/2 by more than eps, predict and
\* step take their trig terms at the stored pitch itself.
C21_ClampOnlyWithinEps ==
    /\ (call.op = "predict" /\ ~NearGimbalLock(pre.x[2])) =>
          call.pitch = pre.x[2]
    /\ (sim_call.op = "step" /\ ~NearGimbalLock(sim_pre[2])) =>
          sim_call.pitch = sim_pre[2]

\* The indices of bias_x, bias_y and bias_z in x and P.
BiasIdx == 3..5

\* C22: predict changes the bias block of P only by the process noise.
\* After predict(gyro, dt) each bias variance is its value before the call
\* plus q_bias * dt, and every covariance between two bias components is
\* what it was, for every state, gyro input and dt.
C22_PredictBiasBlock ==
    (PredictDone /\ finite) =>
        \A i \in BiasIdx, j \in BiasIdx :
            P[i][j] = pre.P[i][j]
                      + (IF i = j THEN Mul(config.q_bias, call.dt) ELSE 0)

C22_Witness ==
    /\ PredictDone /\ finite
    /\ Mul(config.q_bias, call.dt) # 0
    /\ pre.P[1][3] # 0
    /\ pre.P[3][3] # Scale
    /\ pre.P[3][4] # 0
    /\ P[1][1] # pre.P[1][1] + Mul(config.q_roll, call.dt)

\* C23: the record of update(z) is y = (roll_meas - roll, pitch_meas -
\* pitch) from the state before the update, and S = the top-left 2x2 block
\* of the P before the update plus diag(r_roll, r_pitch); and an update
\* whose measurement equals the current (roll, pitch) estimate leaves all
\* five state components as they were.
C23_InnovationRecord ==
    /\ call.op = "update" =>
          /\ innovation_log[Len(innovation_log)]
                = <<call.z[1] - pre.x[1], call.z[2] - pre.x[2]>>
          /\ S_log[Len(S_log)]
                = <<<<pre.P[1][1] + config.r_roll, pre.P[1][2]>>,
                    <<pre.P[2][1], pre.P[2][2] + config.r_pitch>>>>
    /\ (call.op = "update" /\ call.z = <<pre.x[1], pre.x[2]>>) => x = pre.x

C23_Witness ==
    /\ UpdateDone /\ result = "ok"
    /\ call.z = <<pre.x[1], pre.x[2]>>
    /\ pre.x # Zeros5
    /\ x = pre.x
    /\ P # pre.P
    /\ innovation_log[1] # <<0, 0>>
    /\ pre.P[1][2] # 0

\* C25: update appends its record before it inverts S.  Each log has as
\* many entries as update calls were started, failed calls included; a
\* call that fails in the inversion leaves x and P as they were, and its
\* y and S are the last entries of the logs.
C25_FailedUpdateIsLogged ==
    /\ Len(innovation_log) = updates
    /\ Len(S_log) = updates
    /\ (UpdateDone /\ result = "LinAlgError") =>
          /\ x = pre.x /\ P = pre.P
          /\ innovation_log[updates] = Innovation(pre.x, call.z)
          /\ S_log[updates] = InnovationCov(pre.P, config)

C25_Witness ==
    /\ UpdateDone /\ result = "LinAlgError"
    /\ updates = 2
    /\ Len(innovation_log) = 2 /\ Len(S_log) = 2
    /\ x = pre.x /\ P = pre.P
    /\ x # Zeros5

\* C26: in live mode, when the Arduino has sent DONE for the move the
\* sequence worker waits on, _wait_done does not run into its 60 s
\* timeout, however the drain calls of the worker interleave with the
\* drain calls of _poll_serial in the GUI thread.
C26_DoneEndsWait ==
    \A k \in 1..Len(workers) :
        workers[k].waited = "timeout" => ~workers[k].done_sent

\* C27: at most one sequence worker runs at any time; _run_seq starts one
\* only when no sequence is running; _seq_running is cleared only by the
\* delivery of a seq_done signal; and every worker emits seq_done exactly
\* once, when it ends.
C27_AtMostOneWorker ==
    /\ [](/\ Cardinality({k \in 1..Len(workers) : Alive(k)}) <= 1
          /\ (\E k \in 1..Len(workers) : Alive(k)) => seq_running
          /\ \A k \in 1..Len(workers) :
                workers[k].emitted = (IF Alive(k) THEN 0 ELSE 1))
    /\ [][((Len(workers') > Len(workers)) =>
               (~seq_running /\ \A k \in 1..Len(workers) : ~Alive(k)))
           /\ ((seq_running /\ ~seq_running') => (seq_done' = seq_done - 1))]_vars

\* A second worker runs after the first has ended, and the Run button is
\* enabled while it runs (a file was loaded during the run).
C27_Witness ==
    /\ Len(workers) = 2
    /\ workers[1].pc = "ended" /\ workers[1].emitted = 1
    /\ workers[2].pc = "wait"
    /\ seq_running /\ run_btn

\* C28: once _estop or _stop_seq has set the stop flag while a sequence
\* runs, the worker sends no MOVE_ABS, MOVE_REL or HOME for a later step
\* of that sequence (what it sends with the flag set is the command of
\* the step it had already tested the flag for), and the run ends: the
\* seq_done signal is delivered and the Run button is enabled again.
C28_StopEndsSequence ==
    /\ [](\A j \in 1..Len(tx) :
            (tx[j].stop /\ tx[j].worker # 0) =>
                /\ tx[j].worker = tx[j].mark.worker
                /\ tx[j].step <= tx[j].mark.step)
    /\ (seq_stop /\ seq_running) ~> (~seq_running /\ run_btn)

\* The flag was set after the worker had tested it for step 1 of 2 and
\* before it sent the command; the wait for DONE was ended by the flag,
\* step 2 was never sent, and the Run button is enabled again.
C28_Witness ==
    /\ seq_stop /\ ~seq_running /\ run_btn
    /\ Len(workers) = 1
    /\ workers[1].pc = "ended" /\ workers[1].waited = "stop"
    /\ Len(workers[1].seq) = 2
    /\ stopped_at = [set |-> TRUE, worker |-> 1, step |-> 1]
    /\ \E j \in 1..Len(tx) : tx[j].stop /\ tx[j].worker = 1 /\ tx[j].step = 1
    /\ \A j \in 1..Len(tx) : tx[j].worker = 1 => tx[j].step = 1

\* C29: the (A, B) pairs quadrature_pattern_from_angle gives for two
\* consecutive positions p and p + 1 (mod 4 * CPR) differ in exactly one
\* of the two signals, and the pattern repeats every 4 positions.
C29_GrayCodeStep ==
    quad.called =>
        /\ (quad.first[1] # quad.second[1]) # (quad.first[2] # quad.second[2])
        /\ quad.first = <<<<0, 0>>, <<1, 0>>, <<1, 1>>, <<0, 1>>>>[(quad.p % 4) + 1]

\* The last position of the turn and the first.
C29_Witness ==
    /\ quad.called
    /\ quad.p = Positions - 1 /\ quad.s = AngleSub - 1
    /\ quad.first = <<0, 1>> /\ quad.second = <<0, 0>>

\* C30: the display takes the number of axes from the line it reads: a
\* line of 4 fields is parsed as A, B, Index, Angle and a line of 7 fields
\* as A1, B1, A2, B2, Index, Angle1, Angle2, and its samples are the
\* newest entries of the waveform buffers.
C30_AxesAutoDetected ==
    last_line # <<>> =>
        /\ Len(last_line) = 4 =>
              /\ num_axes = 1
              /\ a1_buf[SAMPLES] = last_line[1].val
              /\ b1_buf[SAMPLES] = last_line[2].val
              /\ index = last_line[3].val
        /\ Len(last_line) = 7 =>
              /\ num_axes = 2
              /\ a1_buf[SAMPLES] = last_line[1].val
              /\ b1_buf[SAMPLES] = last_line[2].val
              /\ a2_buf[SAMPLES] = last_line[3].val
              /\ b2_buf[SAMPLES] = last_line[4].val
              /\ index = last_line[5].val

=============================================================================
